---- MODULE Spec2Model ----
(***************************************************************************)
(* FastJango ORM core: the QuerySet (fastjango/db/queryset.py) with its     *)
(* lookup compilation, and the migration engine (fastjango/db/migrations.py)*)
(* modelled as state machines.                                              *)
(*                                                                          *)
(* QuerySet objects live in `qsets`; their _filters and _order_by lists are *)
(* Python list objects, held in `heap` and referred to by index, so that    *)
(* sharing a list between two QuerySets is expressible.  The table of the   *)
(* model class is `rows`, in insertion (rowid) order.                       *)
(***************************************************************************)
EXTENDS Integers, Sequences, FiniteSets, TLC

VARIABLES
    rows,       \* the model's table: sequence of [id, a, b], rowid order
    heap,       \* Python list objects: heap[r] is the list with reference r
    qsets,      \* live QuerySet objects: [filters, order_by, limit, offset, distinct]
    last,       \* the last QuerySet call: what was called and what it gave back
    schema,     \* database schema: [tables, columns, indexes]
    ledger,     \* rows of fastjango_migrations, in id order: [app_label, name]
    ledgerTable,\* does the table fastjango_migrations exist
    call,       \* the running apply_migrations / unapply_migrations call
    prev,       \* the call that ended before `call` began
    instance,   \* the model instance the caller holds: [attrs, pk, owner]
    stored,     \* the table of the validated model class: rows in id order
    done,       \* the last call on an instance, a field or the Manager
    scope,      \* the session_scope() block the caller is in, or was in last
    racers,     \* two callers of get_or_create, each at its own point of the call
    files,      \* the migration files on disk: [dir, stamp, migration]
    cli,        \* the last migrate / makemigrations command and its outcome
    other       \* the apply_migrations call of a second process, while the
                \* first one (call) takes its steps

qsVars  == <<rows, heap, qsets, last>>
migVars == <<schema, ledger, ledgerTable, call, prev>>
modVars == <<instance, stored, done>>
extVars == <<scope, racers, files, cli, other>>
vars    == <<rows, heap, qsets, last, schema, ledger, ledgerTable, call, prev,
             instance, stored, done, scope, racers, files, cli,
             other>>

----------------------------------------------------------------------------
(* Bounds of the model *)

MaxRows == 2        \* rows the table may hold
MaxQS   == 3        \* QuerySet objects alive at once
MaxId   == 3        \* the largest primary key the table hands out

----------------------------------------------------------------------------
(* Values *)

\* SQL NULL in a column and Python None in _limit / _offset; every other
\* value of the model is a natural number
Null == -1
Vals == {1, 2}
ColVals == Vals \cup {Null}
Fields == {"a", "b"}

\* Python truthiness of an Optional[int]: None and 0 are falsy
Truthy(v) == v # Null /\ v # 0

Max(S) == CHOOSE x \in S : \A y \in S : y <= x

Range(s) == {s[i] : i \in DOMAIN s}

----------------------------------------------------------------------------
(* Three-valued SQL logic: "T", "F", "U" (unknown, from NULL) *)

Not3(v) == CASE v = "T" -> "F" [] v = "F" -> "T" [] OTHER -> "U"

And3(v, w) ==
    IF v = "F" \/ w = "F" THEN "F"
    ELSE IF v = "T" /\ w = "T" THEN "T" ELSE "U"

Or3(v, w) == Not3(And3(Not3(v), Not3(w)))

Bool3(b) == IF b THEN "T" ELSE "F"

\* a comparison of a column with a non-NULL literal
Cmp3(op, x, v) ==
    IF x = Null THEN "U"
    ELSE CASE op = "eq"  -> Bool3(x = v)
           [] op = "ne"  -> Bool3(x # v)
           [] op = "gt"  -> Bool3(x > v)
           [] op = "gte" -> Bool3(x >= v)
           [] op = "lt"  -> Bool3(x < v)
           [] op = "lte" -> Bool3(x <= v)

----------------------------------------------------------------------------
(* Lookup compilation: QuerySet._build_lookup_filter *)

\* a keyword of filter()/exclude(): `name` alone, or `name__lookup`
NoLookup == "-"
HasDunder(key) == key.lookup # NoLookup

ComparisonLookups == {"exact", "gt", "gte", "lt", "lte"}
\* lookups on text, lists and date parts: compiled, but their evaluation is
\* outside the integer columns of this model
OtherLookups ==
    {"iexact", "contains", "icontains", "in", "startswith", "istartswith",
     "endswith", "iendswith", "range", "year", "month", "day", "week",
     "week_day", "quarter", "time", "hour", "minute", "second", "regex",
     "iregex"}

Compiled(p) == [err |-> "none", pred |-> p]
Raised(e)   == [err |-> e, pred |-> [kind |-> "none"]]

ColumnOp(op, field, value) ==
    [kind |-> "cmp", op |-> op, field |-> field, value |-> value]

_build_lookup_filter_silent(field_name, lookup, value) ==
    CASE lookup = "exact" -> Compiled(ColumnOp("eq", field_name, value))
      [] lookup \in {"gt", "gte", "lt", "lte"} ->
            Compiled(ColumnOp(lookup, field_name, value))
      [] lookup = "isnull" ->
            Compiled([kind |-> "is", field |-> field_name, null |-> Truthy(value)])
      [] lookup \in OtherLookups ->
            Compiled([kind |-> "ext", op |-> lookup, field |-> field_name,
                      value |-> value])
      [] OTHER -> Compiled([kind |-> "true"])

_build_lookup_filter(field_name, lookup, value) ==
    CASE lookup = "exact" -> Compiled(ColumnOp("eq", field_name, value))
      [] lookup \in {"gt", "gte", "lt", "lte"} ->
            Compiled(ColumnOp(lookup, field_name, value))
      [] lookup = "isnull" ->
            Compiled([kind |-> "is", field |-> field_name, null |-> Truthy(value)])
      [] lookup \in OtherLookups ->
            Compiled([kind |-> "ext", op |-> lookup, field |-> field_name,
                      value |-> value])
      [] OTHER -> Raised("ValueError")

\* the value of a compiled predicate on one row
RECURSIVE Eval(_, _)
Eval(p, row) ==
    CASE p.kind = "cmp"  -> Cmp3(p.op, row[p.field], p.value)
      [] p.kind = "is"   -> Bool3((row[p.field] = Null) = p.null)
      [] p.kind = "not"  -> Not3(Eval(p.arg, row))
      [] p.kind = "true" -> "T"

\* and_(*preds) on one row
RECURSIVE AndAll(_, _)
AndAll(preds, row) ==
    IF preds = <<>> THEN "T"
    ELSE And3(Eval(Head(preds), row), AndAll(Tail(preds), row))

----------------------------------------------------------------------------
(* QuerySet objects *)

\* QuerySet.__init__: a fresh QuerySet with two fresh, empty lists
NewQuerySet(h) ==
    [h |-> h \o << <<>>, <<>> >>,
     q |-> [filters |-> Len(h) + 1, order_by |-> Len(h) + 2,
            limit |-> Null, offset |-> Null, distinct |-> FALSE]]

\* a clone that shares the receiver's lists instead of copying them
_clone_shared(h, self) ==
    [h |-> h \o << <<>>, <<>> >>,
     q |-> [filters |-> self.filters, order_by |-> self.order_by,
            limit |-> self.limit, offset |-> self.offset,
            distinct |-> self.distinct]]

_clone(h, self) ==
    LET n == NewQuerySet(h) IN
    [h |-> [n.h EXCEPT ![n.q.filters]  = h[self.filters],
                       ![n.q.order_by] = h[self.order_by]],
     q |-> [n.q EXCEPT !.limit = self.limit, !.offset = self.offset,
                       !.distinct = self.distinct]]

\* what a chaining method gives back: the new QuerySet or the exception,
\* and the number of statements it executed against the session (execs)
Chained(h, q) == [err |-> "none", h |-> h, q |-> q, execs |-> 0]
ChainRaised(e, h, q) == [err |-> e, h |-> h, q |-> q, execs |-> 0]

\* the loop of filter(): one predicate appended per keyword, in order
RECURSIVE FilterLoop(_, _, _)
FilterLoop(h, qs, kwargs) ==
    IF kwargs = <<>> THEN Chained(h, qs)
    ELSE LET kv == Head(kwargs)
             c == IF HasDunder(kv.key)
                  THEN _build_lookup_filter(kv.key.name, kv.key.lookup, kv.value)
                  ELSE Compiled(ColumnOp("eq", kv.key.name, kv.value))
         IN  IF c.err # "none" THEN ChainRaised(c.err, h, qs)
             ELSE FilterLoop([h EXCEPT ![qs.filters] = Append(@, c.pred)],
                             qs, Tail(kwargs))

filter(h, self, kwargs) ==
    LET c == _clone(h, self) IN FilterLoop(c.h, c.q, kwargs)

\* the loop of exclude(): one negated predicate appended per keyword
RECURSIVE ExcludeLoop(_, _, _)
ExcludeLoop(h, qs, kwargs) ==
    IF kwargs = <<>> THEN Chained(h, qs)
    ELSE LET kv == Head(kwargs)
             b == _build_lookup_filter(kv.key.name, kv.key.lookup, kv.value)
             c == IF HasDunder(kv.key)
                  THEN IF b.err # "none" THEN b
                       ELSE Compiled([kind |-> "not", arg |-> b.pred])
                  ELSE Compiled(ColumnOp("ne", kv.key.name, kv.value))
         IN  IF c.err # "none" THEN ChainRaised(c.err, h, qs)
             ELSE ExcludeLoop([h EXCEPT ![qs.filters] = Append(@, c.pred)],
                              qs, Tail(kwargs))

\* an exclude() that appends the predicates without negating them
exclude_unnegated(h, self, kwargs) ==
    LET c == _clone(h, self) IN FilterLoop(c.h, c.q, kwargs)

exclude(h, self, kwargs) ==
    LET c == _clone(h, self) IN ExcludeLoop(c.h, c.q, kwargs)

\* order_by(*fields): a field is a string, here the sequence of its
\* characters; a leading "-" makes it descending and is cut off
OrderTerm(field) ==
    IF Head(field) = "-"
    THEN [name |-> Head(Tail(field)), desc |-> TRUE]
    ELSE [name |-> Head(field), desc |-> FALSE]

RECURSIVE OrderLoop(_, _, _)
OrderLoop(h, qs, fields) ==
    IF fields = <<>> THEN Chained(h, qs)
    ELSE OrderLoop([h EXCEPT ![qs.order_by] = Append(@, OrderTerm(Head(fields)))],
                   qs, Tail(fields))

order_by(h, self, fields) ==
    LET c == _clone(h, self) IN OrderLoop(c.h, c.q, fields)

distinct(h, self) ==
    LET c == _clone(h, self) IN Chained(c.h, [c.q EXCEPT !.distinct = TRUE])

\* a limit() that runs a COUNT query to clamp its argument
limit_counting(h, self, n) ==
    LET c == _clone(h, self)
    IN  [Chained(c.h, [c.q EXCEPT !.limit = n]) EXCEPT !.execs = 1]

limit(h, self, n) ==
    LET c == _clone(h, self) IN Chained(c.h, [c.q EXCEPT !.limit = n])

offset(h, self, n) ==
    LET c == _clone(h, self) IN Chained(c.h, [c.q EXCEPT !.offset = n])

----------------------------------------------------------------------------
(* Query execution: what session.execute(query) returns for a Select *)

\* r1 sorts strictly before r2 under the ORDER BY terms (NULL sorts first)
RECURSIVE Before(_, _, _)
Before(r1, r2, terms) ==
    IF terms = <<>> THEN FALSE
    ELSE LET t == Head(terms)
             x == r1[t.name]
             y == r2[t.name]
         IN  IF x = y THEN Before(r1, r2, Tail(terms))
             ELSE IF t.desc THEN x > y ELSE x < y

\* r inserted into the sorted sequence s after every row not sorting after it
RECURSIVE Insert(_, _, _)
Insert(r, s, terms) ==
    IF s = <<>> THEN <<r>>
    ELSE IF Before(r, Head(s), terms) THEN <<r>> \o s
         ELSE <<Head(s)>> \o Insert(r, Tail(s), terms)

\* stable sort
RECURSIVE SortBy(_, _)
SortBy(s, terms) ==
    IF s = <<>> THEN <<>>
    ELSE Insert(s[Len(s)], SortBy(SubSeq(s, 1, Len(s) - 1), terms), terms)

\* SELECT DISTINCT: the first of equal rows is kept
RECURSIVE Dedup(_)
Dedup(s) ==
    IF s = <<>> THEN <<>>
    ELSE LET d == Dedup(SubSeq(s, 1, Len(s) - 1))
         IN  IF s[Len(s)] \in Range(d) THEN d ELSE Append(d, s[Len(s)])

Skip(s, n) == SubSeq(s, n + 1, Len(s))
Take(s, n) == SubSeq(s, 1, IF n < Len(s) THEN n ELSE Len(s))

\* a Select: WHERE, ORDER BY, DISTINCT, LIMIT, OFFSET (Null: clause absent)
Execute(query, table) ==
    LET matched == SelectSeq(table, LAMBDA r : AndAll(query.where, r) = "T")
        ordered == SortBy(matched, query.order)
        unique  == IF query.distinct THEN Dedup(ordered) ELSE ordered
        skipped == IF query.offset = Null THEN unique ELSE Skip(unique, query.offset)
    IN  IF query.limit = Null THEN skipped ELSE Take(skipped, query.limit)

\* QuerySet._build_query with _apply_filters and _apply_order_by
_build_query(h, self) ==
    [where    |-> h[self.filters],
     order    |-> h[self.order_by],
     distinct |-> self.distinct,
     limit    |-> IF Truthy(self.limit) THEN self.limit ELSE Null,
     offset   |-> IF Truthy(self.offset) THEN self.offset ELSE Null]

\* QuerySet.all: the list of instances
all(h, self, table) == Execute(_build_query(h, self), table)

\* QuerySet.first: query.limit(1), fetchone; <<>> stands for None
first(h, self, table) ==
    Execute([_build_query(h, self) EXCEPT !.limit = 1], table)

\* the columns of the model's table, in the order of __table__.columns
Columns == <<"id", "a", "b">>

\* dict(zip(fields, row))
Dict(fields, r) == [f \in Range(fields) |-> r[f]]
\* the result row as a tuple
Tuple(fields, r) == [k \in DOMAIN fields |-> r[fields[k]]]

\* a Select of the columns `fields` instead of the entity: WHERE and ORDER BY
\* see the whole row, DISTINCT the selected columns; the result rows are
\* dictionaries, or tuples when `tuples` is set
ExecuteColumns(query, fields, tuples, table) ==
    LET matched == SelectSeq(table, LAMBDA r : AndAll(query.where, r) = "T")
        ordered == SortBy(matched, query.order)
        picked  == [k \in DOMAIN ordered |->
                       IF tuples THEN Tuple(fields, ordered[k])
                       ELSE Dict(fields, ordered[k])]
        unique  == IF query.distinct THEN Dedup(picked) ELSE picked
        skipped == IF query.offset = Null THEN unique ELSE Skip(unique, query.offset)
    IN  IF query.limit = Null THEN skipped ELSE Take(skipped, query.limit)

\* QuerySet.values(*fields): a list of dictionaries
values(h, self, fields, table) ==
    LET cols == IF fields = <<>> THEN Columns ELSE fields
    IN  ExecuteColumns(_build_query(h, self), cols, FALSE, table)

\* QuerySet.values_list(*fields): a list of tuples
values_list(h, self, fields, table) ==
    LET cols == IF fields = <<>> THEN Columns ELSE fields
    IN  ExecuteColumns(_build_query(h, self), cols, TRUE, table)

\* QuerySet.last: order_by('-id') on top of the ordering the QuerySet has,
\* then first()
QuerySet_last(h, self, table) ==
    LET qs == order_by(h, self, << <<"-", "id">> >>)
    IN  first(qs.h, qs.q, table)

\* QuerySet.count: SELECT count(id) with the filters only
count(h, self, table) ==
    Len(SelectSeq(table, LAMBDA r : AndAll(h[self.filters], r) = "T"))

\* QuerySet.__len__
__len__(h, self, table) == count(h, self, table)

\* Model(attrs): the instance, a row without a primary key yet
Instance(attrs) ==
    [f \in Fields |->
        IF \E i \in DOMAIN attrs : attrs[i].key = [name |-> f, lookup |-> NoLookup]
        THEN attrs[CHOOSE i \in DOMAIN attrs :
                       attrs[i].key = [name |-> f, lookup |-> NoLookup]].value
        ELSE Null]

\* session.add(instance); session.commit(): the row gets the next rowid
Insert_row(table, inst) ==
    LET id == IF table = <<>> THEN 1
              ELSE Max({table[i].id : i \in DOMAIN table}) + 1
    IN  Append(table, [id |-> id, a |-> inst.a, b |-> inst.b])

Returned(h, out, execs) ==
    [err |-> "none", h |-> h, out |-> out, execs |-> execs]
CallRaised(e, h, execs) ==
    [err |-> e, h |-> h, out |-> <<>>, execs |-> execs]

\* QuerySet.get: filter(kwargs).first()
get(h, self, kwargs, table) ==
    LET qs == filter(h, self, kwargs) IN
    IF qs.err # "none" THEN CallRaised(qs.err, qs.h, 0)
    ELSE Returned(qs.h, first(qs.h, qs.q, table), 1)

\* QuerySet.get_or_create: get(); on DoesNotExist, construct, add, commit
\* get_or_create after self.get(kwargs) gave g: the except clause creates
\* when get raised DoesNotExist, otherwise (obj, False) is returned or the
\* exception goes on
after_get(g, defaults, kwargs, table) ==
    IF g.err = "DoesNotExist"
    THEN LET t == Insert_row(table, Instance(kwargs \o defaults))
         IN  [err |-> "none", h |-> g.h, out |-> <<t[Len(t)]>>,
              created |-> TRUE, table |-> t, execs |-> g.execs]
    ELSE [err |-> g.err, h |-> g.h, out |-> g.out,
          created |-> FALSE, table |-> table, execs |-> g.execs]

get_or_create(h, self, defaults, kwargs, table) ==
    after_get(get(h, self, kwargs, table), defaults, kwargs, table)

----------------------------------------------------------------------------
(* Inputs of the QuerySet calls *)

KV(name, lookup, value) ==
    [key |-> [name |-> name, lookup |-> lookup], value |-> value]

\* keyword dictionaries of filter()/exclude()/get(): plain keys, a known
\* lookup, and a suffix that is no lookup (alone, and after a valid keyword)
KwargsInputs ==
    {<<KV("a", NoLookup, 1)>>, <<KV("b", NoLookup, 2)>>,
     <<KV("a", NoLookup, 1), KV("b", NoLookup, 2)>>,
     <<KV("a", "gte", 2)>>, <<KV("a", "isnull", 1)>>,
     <<KV("a", "nosuch", 1)>>,
     <<KV("b", NoLookup, 2), KV("a", "nosuch", 1)>>}

OrderInputs == {<< <<"-", "a">> >>, << <<"b">>, <<"a">> >>}
LimitInputs == {0, 1}
OffsetInputs == {1}
DefaultsInputs == {<<>>, <<KV("b", NoLookup, 1)>>}
\* keywords of update(): one column, and two
UpdateInputs == {<<KV("b", NoLookup, 1)>>,
                 <<KV("a", NoLookup, 2), KV("b", NoLookup, 2)>>}

\* the rows the table is filled with: (a, b)
RowKinds == {<<1, 1>>, <<1, 2>>, <<2, 1>>, <<2, 2>>, <<Null, 2>>, <<2, Null>>}
CreateInputs ==
    {<<KV("a", NoLookup, k[1]), KV("b", NoLookup, k[2])>> : k \in RowKinds}

\* every table of at most MaxRows such rows, with rowids 1, 2, ...
Tables ==
    UNION {{[i \in 1..n |-> [id |-> i, a |-> f[i][1], b |-> f[i][2]]] :
                f \in [1..n -> RowKinds]} : n \in 0..MaxRows}

----------------------------------------------------------------------------
(* The QuerySet chaining calls as actions *)

\* list objects no live QuerySet refers to are garbage
Collect(h, qs) ==
    SubSeq(h, 1, Max({qs[i].filters : i \in DOMAIN qs}
                     \cup {qs[i].order_by : i \in DOMAIN qs}))

\* `last`: the call (op, receiver recv, arguments), the QuerySet it returned
\* (ret, 0 for none), what it raised (err), the rows it returned (out, <<>>
\* for None), how many queries it executed against the session (execs), the
\* keywords of an update (changes), the number it returned (rowcount), and
\* how many times it called a field's validate, full_clean or clean
\* (validates)
NoCall ==
    [op |-> "none", recv |-> 0, ret |-> 0, err |-> "none", args |-> <<>>,
     defaults |-> <<>>, out |-> <<>>, created |-> FALSE, execs |-> 0,
     changes |-> <<>>, rowcount |-> 0, validates |-> 0]

\* a chaining call on qsets[i] that gave r back (or raised)
Chain(op, i, args, r) ==
    /\ Len(qsets) < MaxQS
    /\ IF r.err = "none"
       THEN /\ qsets' = Append(qsets, r.q)
            /\ heap' = Collect(r.h, qsets')
            /\ last' = [NoCall EXCEPT !.op = op, !.recv = i, !.args = args,
                                      !.ret = Len(qsets) + 1,
                                      !.execs = r.execs]
       ELSE /\ qsets' = qsets
            /\ heap' = Collect(r.h, qsets)
            /\ last' = [NoCall EXCEPT !.op = op, !.recv = i, !.args = args,
                                      !.err = r.err, !.execs = r.execs]
    /\ UNCHANGED <<rows, migVars, modVars, extVars>>

Filter(i, kwargs)  == Chain("filter", i, kwargs, filter(heap, qsets[i], kwargs))
Exclude(i, kwargs) == Chain("exclude", i, kwargs, exclude(heap, qsets[i], kwargs))
OrderBy(i, fields) == Chain("order_by", i, fields, order_by(heap, qsets[i], fields))
Distinct(i)        == Chain("distinct", i, <<>>, distinct(heap, qsets[i]))
Limit(i, n)        == Chain("limit", i, <<n>>, limit(heap, qsets[i], n))
Offset(i, n)       == Chain("offset", i, <<n>>, offset(heap, qsets[i], n))

\* a terminal call on qsets[i]: one statement is executed, the rows or the
\* number come back, and no QuerySet is kept
Terminal(op, i, out, n) ==
    /\ last' = [NoCall EXCEPT !.op = op, !.recv = i, !.out = out,
                              !.rowcount = n, !.execs = 1]
    /\ UNCHANGED <<rows, heap, qsets, migVars, modVars, extVars>>

All(i)       == Terminal("all", i, all(heap, qsets[i], rows), 0)
First(i)     == Terminal("first", i, first(heap, qsets[i], rows), 0)
Last(i)      == Terminal("last", i, QuerySet_last(heap, qsets[i], rows), 0)
CountRows(i) == Terminal("count", i, <<>>, count(heap, qsets[i], rows))
LenRows(i)   == Terminal("len", i, <<>>, __len__(heap, qsets[i], rows))

----------------------------------------------------------------------------
(* The Manager calls as actions: each works on get_queryset(), a fresh       *)
(* QuerySet that is dropped when the call returns                            *)

get_queryset == NewQuerySet(<<>>)

\* the row after SET key = value for every keyword
RECURSIVE Assign(_, _)
Assign(r, kwargs) ==
    IF kwargs = <<>> THEN r
    ELSE Assign([r EXCEPT ![Head(kwargs).key.name] = Head(kwargs).value],
                Tail(kwargs))

\* an UPDATE that leaves the WHERE clause out
update_all(h, self, kwargs, table) ==
    [table |-> [k \in DOMAIN table |-> Assign(table[k], kwargs)],
     rowcount |-> Len(table)]

\* QuerySet.update: update(model) with _apply_filters and values(kwargs),
\* execute, commit; returns result.rowcount
update(h, self, kwargs, table) ==
    LET hit(r) == AndAll(h[self.filters], r) = "T"
    IN  [table |-> [k \in DOMAIN table |->
                       IF hit(table[k]) THEN Assign(table[k], kwargs)
                       ELSE table[k]],
         rowcount |-> Cardinality({k \in DOMAIN table : hit(table[k])})]

\* QuerySet.delete: delete(model) with _apply_filters, execute, commit;
\* returns result.rowcount
delete(h, self, table) ==
    LET hit(r) == AndAll(h[self.filters], r) = "T"
    IN  [table |-> SelectSeq(table, LAMBDA r : ~hit(r)),
         rowcount |-> Cardinality({k \in DOMAIN table : hit(table[k])})]

ManagerAll ==
    LET m == get_queryset IN
    /\ last' = [NoCall EXCEPT !.op = "all", !.out = all(m.h, m.q, rows),
                              !.execs = 1]
    /\ UNCHANGED <<rows, heap, qsets, migVars, modVars, extVars>>

ManagerFirst ==
    LET m == get_queryset IN
    /\ last' = [NoCall EXCEPT !.op = "first", !.out = first(m.h, m.q, rows),
                              !.execs = 1]
    /\ UNCHANGED <<rows, heap, qsets, migVars, modVars, extVars>>

ManagerGet(kwargs) ==
    LET m == get_queryset
        r == get(m.h, m.q, kwargs, rows)
    IN  /\ last' = [NoCall EXCEPT !.op = "get", !.args = kwargs, !.err = r.err,
                                  !.out = r.out, !.execs = r.execs]
        /\ UNCHANGED <<rows, heap, qsets, migVars, modVars, extVars>>

ManagerGetOrCreate(defaults, kwargs) ==
    LET m == get_queryset
        r == get_or_create(m.h, m.q, defaults, kwargs, rows)
    IN  /\ Len(r.table) <= MaxRows
        /\ rows' = r.table
        /\ last' = [NoCall EXCEPT !.op = "get_or_create", !.args = kwargs,
                                  !.defaults = defaults,
                                  !.err = r.err, !.out = r.out,
                                  !.created = r.created, !.execs = r.execs]
        /\ UNCHANGED <<heap, qsets, migVars, modVars, extVars>>

\* Manager.create -> QuerySet.create(kwargs): construct, add, commit
ManagerCreate(kwargs) ==
    /\ Len(rows) < MaxRows
    /\ \A k \in DOMAIN rows : rows[k].id < MaxId
    /\ rows' = Insert_row(rows, Instance(kwargs))
    /\ last' = [NoCall EXCEPT !.op = "create", !.args = kwargs,
                              !.out = <<rows'[Len(rows')]>>,
                              !.validates = Len(kwargs)]
    /\ UNCHANGED <<heap, qsets, migVars, modVars, extVars>>

\* Model.objects.filter(kwargs).update(changes)
FilterUpdate(kwargs, changes) ==
    LET m == get_queryset
        qs == filter(m.h, m.q, kwargs)
    IN  /\ IF qs.err # "none"
           THEN /\ rows' = rows
                /\ last' = [NoCall EXCEPT !.op = "update", !.args = kwargs,
                                          !.changes = changes, !.err = qs.err]
           ELSE \E r \in {update(qs.h, qs.q, changes, rows)} :
                /\ rows' = r.table
                /\ last' = [NoCall EXCEPT !.op = "update", !.args = kwargs,
                                          !.changes = changes, !.execs = 1,
                                          !.rowcount = r.rowcount]
        /\ UNCHANGED <<heap, qsets, migVars, modVars, extVars>>

\* Model.objects.filter(kwargs).delete()
FilterDelete(kwargs) ==
    LET m == get_queryset
        qs == filter(m.h, m.q, kwargs)
    IN  /\ IF qs.err # "none"
           THEN /\ rows' = rows
                /\ last' = [NoCall EXCEPT !.op = "delete", !.args = kwargs,
                                          !.err = qs.err]
           ELSE \E r \in {delete(qs.h, qs.q, rows)} :
                /\ rows' = r.table
                /\ last' = [NoCall EXCEPT !.op = "delete", !.args = kwargs,
                                          !.execs = 1,
                                          !.rowcount = r.rowcount]
        /\ UNCHANGED <<heap, qsets, migVars, modVars, extVars>>

----------------------------------------------------------------------------
(* Migration operations: forward and reverse against the database schema.   *)
(* The schema is [tables, columns, indexes]: table names, columns           *)
(* [table, name, type], indexes [name, table].  A statement the database     *)
(* rejects (the object exists already, or is missing) raises.               *)

CreateTable(table_name, columns) ==
    [type |-> "CreateTable", table_name |-> table_name, columns |-> columns]
DropTable(table_name) ==
    [type |-> "DropTable", table_name |-> table_name]
AddColumn(table_name, column_name, column_type) ==
    [type |-> "AddColumn", table_name |-> table_name,
     column_name |-> column_name, column_type |-> column_type]
DropColumn(table_name, column_name) ==
    [type |-> "DropColumn", table_name |-> table_name,
     column_name |-> column_name]
AlterColumn(table_name, column_name, column_type) ==
    [type |-> "AlterColumn", table_name |-> table_name,
     column_name |-> column_name, column_type |-> column_type]
CreateIndex(table_name, index_name) ==
    [type |-> "CreateIndex", table_name |-> table_name, index_name |-> index_name]
DropIndex(index_name) ==
    [type |-> "DropIndex", index_name |-> index_name]

Column(t, n, ty) == [table |-> t, name |-> n, type |-> ty]
HasColumn(sch, t, n) == \E c \in sch.columns : c.table = t /\ c.name = n
HasIndex(sch, n) == \E x \in sch.indexes : x.name = n

\* CREATE TABLE / DROP TABLE / ALTER TABLE ... / CREATE INDEX / DROP INDEX
SqlCreateTable(sch, t, cols) ==
    IF t \in sch.tables THEN [ok |-> FALSE, schema |-> sch]
    ELSE [ok |-> TRUE,
          schema |-> [sch EXCEPT !.tables = @ \cup {t},
                                 !.columns = @ \cup {Column(t, c[1], c[2]) :
                                                        c \in Range(cols)}]]
SqlDropTable(sch, t) ==
    IF t \notin sch.tables THEN [ok |-> FALSE, schema |-> sch]
    ELSE [ok |-> TRUE,
          schema |-> [tables  |-> sch.tables \ {t},
                      columns |-> {c \in sch.columns : c.table # t},
                      indexes |-> {x \in sch.indexes : x.table # t}]]
SqlAddColumn(sch, t, n, ty) ==
    IF t \notin sch.tables \/ HasColumn(sch, t, n)
    THEN [ok |-> FALSE, schema |-> sch]
    ELSE [ok |-> TRUE, schema |-> [sch EXCEPT !.columns = @ \cup {Column(t, n, ty)}]]
SqlDropColumn(sch, t, n) ==
    IF ~HasColumn(sch, t, n) THEN [ok |-> FALSE, schema |-> sch]
    ELSE [ok |-> TRUE,
          schema |-> [sch EXCEPT !.columns =
                         {c \in @ : ~(c.table = t /\ c.name = n)}]]
SqlAlterColumnType(sch, t, n, ty) ==
    IF ~HasColumn(sch, t, n) THEN [ok |-> FALSE, schema |-> sch]
    ELSE [ok |-> TRUE,
          schema |-> [sch EXCEPT !.columns =
                         {c \in @ : ~(c.table = t /\ c.name = n)}
                         \cup {Column(t, n, ty)}]]
SqlCreateIndex(sch, n, t) ==
    IF t \notin sch.tables \/ HasIndex(sch, n) THEN [ok |-> FALSE, schema |-> sch]
    ELSE [ok |-> TRUE,
          schema |-> [sch EXCEPT !.indexes = @ \cup {[name |-> n, table |-> t]}]]
SqlDropIndex(sch, n) ==
    IF ~HasIndex(sch, n) THEN [ok |-> FALSE, schema |-> sch]
    ELSE [ok |-> TRUE, schema |-> [sch EXCEPT !.indexes = {x \in @ : x.name # n}]]

\* operation.forward(engine): [ok, schema]; ok = FALSE when it raises
forward(op, sch) ==
    CASE op.type = "CreateTable" -> SqlCreateTable(sch, op.table_name, op.columns)
      [] op.type = "DropTable"   -> SqlDropTable(sch, op.table_name)
      [] op.type = "AddColumn"   ->
            SqlAddColumn(sch, op.table_name, op.column_name, op.column_type)
      [] op.type = "DropColumn"  -> SqlDropColumn(sch, op.table_name, op.column_name)
      [] op.type = "AlterColumn" ->
            SqlAlterColumnType(sch, op.table_name, op.column_name, op.column_type)
      [] op.type = "CreateIndex" -> SqlCreateIndex(sch, op.index_name, op.table_name)
      [] op.type = "DropIndex"   -> SqlDropIndex(sch, op.index_name)

\* a reverse that only prints a warning for every operation
reverse_warning_only(op, sch) == [ok |-> TRUE, schema |-> sch]

\* operation.reverse(engine): DropTable, DropColumn, AlterColumn and
\* DropIndex only print a warning
reverse(op, sch) ==
    CASE op.type = "CreateTable" -> SqlDropTable(sch, op.table_name)
      [] op.type = "AddColumn"   -> SqlDropColumn(sch, op.table_name, op.column_name)
      [] op.type = "CreateIndex" -> SqlDropIndex(sch, op.index_name)
      [] OTHER -> [ok |-> TRUE, schema |-> sch]

----------------------------------------------------------------------------
(* Migrations, the recorder, apply_migrations and unapply_migrations *)

Migration(name, app_label, operations) ==
    [name |-> name, app_label |-> app_label, operations |-> operations]

\* the migrations of the model
Initial  == Migration("0001_initial", "shop",
                <<CreateTable("item", << <<"id", "INTEGER">> >>),
                  AddColumn("item", "sku", "VARCHAR"),
                  AddColumn("item", "price", "NUMERIC")>>)
AddIndex == Migration("0002_index", "shop",
                <<CreateIndex("item", "item_sku")>>)
Retype   == Migration("0003_retype", "shop",
                <<AlterColumn("item", "sku", "TEXT"), DropIndex("item_sku")>>)

\* a migration whose one operation succeeds each time it runs
Widen    == Migration("0004_widen", "shop",
                <<AlterColumn("item", "price", "TEXT")>>)

\* the migration lists apply_migrations / unapply_migrations are called with
ListInputs ==
    {<<Initial>>, <<Initial, AddIndex>>, <<AddIndex, Initial>>,
     <<Initial, AddIndex, Retype>>, <<Retype>>, <<Initial, Initial>>}

Key(migration) == [app_label |-> migration.app_label, name |-> migration.name]

\* a ledger table with a unique (app_label, name): the second INSERT of a
\* pair adds no row
record_once(led, app_label, name) ==
    IF \E i \in DOMAIN led : led[i] = [app_label |-> app_label, name |-> name]
    THEN led
    ELSE Append(led, [app_label |-> app_label, name |-> name])

\* MigrationRecorder.record_applied: INSERT one row; the table has no
\* uniqueness constraint on (app_label, name)
record_applied(led, app_label, name) ==
    Append(led, [app_label |-> app_label, name |-> name])

\* MigrationRecorder.record_unapplied: DELETE every row of that pair
record_unapplied(led, app_label, name) ==
    SelectSeq(led, LAMBDA m : ~(m.app_label = app_label /\ m.name = name))

\* MigrationRecorder.get_applied_migrations: the pairs recorded
get_applied_migrations(led) == led

\* a check that finds no migration applied
never_applied(applied, migration) == FALSE

\* any(m['app_label'] == migration.app_label and m['name'] == migration.name)
is_applied(applied, migration) ==
    \E i \in DOMAIN applied :
        /\ applied[i].app_label = migration.app_label
        /\ applied[i].name = migration.name

\* an iteration that forgets reversed()
not_reversed(s) == s

\* reversed(s)
reversed(s) == [i \in 1..Len(s) |-> s[Len(s) + 1 - i]]

\* an apply()/unapply() that goes on with the next operation after a raise
keep_going(n, k, ok) == IF k < n THEN "next" ELSE "return"

\* the loop of Migration.apply / Migration.unapply after the k-th of n
\* operations ran: go on, return, or re-raise
after_operation(n, k, ok) ==
    IF ~ok THEN "raise" ELSE IF k < n THEN "next" ELSE "return"

\* a loop body that records even when apply() raised
record_anyway(result) == "record"

\* the body of the loop of apply_migrations / unapply_migrations after
\* migration.apply / unapply: record, or let the exception end the call
after_migration(result) == IF result = "raise" THEN "raise" ELSE "record"

NoMigrationCall ==
    [kind |-> "none", migrations |-> <<>>, k |-> 0, oi |-> 0, pc |-> "idle",
     outcome |-> "none", log |-> <<>>, ledger0 |-> <<>>,
     schema0 |-> [tables |-> {}, columns |-> {}, indexes |-> {}]]

\* what is kept of the call that ended before the running one began
Summary(c) ==
    [kind |-> c.kind, migrations |-> c.migrations, outcome |-> c.outcome,
     log |-> c.log, schema0 |-> c.schema0]

\* the order the call walks its list in, and the migration it is at
Walk(c) == IF c.kind = "unapply" THEN reversed(c.migrations) ELSE c.migrations
Current(c) == Walk(c)[c.k]
\* the order the operations of the current migration run in
Steps(c) ==
    IF c.kind = "unapply" THEN reversed(Current(c).operations)
    ELSE Current(c).operations

\* an entry of the call's log: the k-th migration of the walk had the oi-th
\* operation of its run (op) executed, or its ledger record written/removed
NoOperation == [type |-> "none"]
Event(e, c, op, ok) ==
    [e |-> e, key |-> Key(Current(c)), k |-> c.k, oi |-> c.oi, op |-> op,
     ok |-> ok]

\* apply_migrations(migrations, engine) begins: MigrationRecorder(engine)
\* creates the ledger table when it is missing
ApplyMigrations(migrations) ==
    /\ call.pc = "idle"
    /\ ledgerTable' = TRUE
    /\ prev' = Summary(call)
    /\ call' = [NoMigrationCall EXCEPT !.kind = "apply", !.migrations = migrations,
                    !.k = 1, !.pc = "check", !.outcome = "running",
                    !.ledger0 = ledger, !.schema0 = schema]
    /\ UNCHANGED <<schema, ledger, qsVars, modVars, extVars>>

UnapplyMigrations(migrations) ==
    /\ call.pc = "idle"
    /\ ledgerTable' = TRUE
    /\ prev' = Summary(call)
    /\ call' = [NoMigrationCall EXCEPT !.kind = "unapply", !.migrations = migrations,
                    !.k = 1, !.pc = "check", !.outcome = "running",
                    !.ledger0 = ledger, !.schema0 = schema]
    /\ UNCHANGED <<schema, ledger, qsVars, modVars, extVars>>

\* the head of the loop: the list is done, or the ledger is read and the
\* migration is skipped or begun
LoopHead(kind, wanted) ==
    /\ call.kind = kind /\ call.pc = "check"
    /\ IF call.k > Len(call.migrations)
       THEN call' = [call EXCEPT !.pc = "idle", !.outcome = "returned"]
       ELSE IF is_applied(get_applied_migrations(ledger), Current(call)) = wanted
            THEN IF Current(call).operations = <<>>
                 THEN call' = [call EXCEPT !.pc = after_migration("return")]
                 ELSE call' = [call EXCEPT !.pc = "run", !.oi = 1]
            ELSE call' = [call EXCEPT !.k = @ + 1]
    /\ UNCHANGED <<schema, ledger, ledgerTable, prev, qsVars, modVars, extVars>>

\* apply_migrations begins a migration the ledger does not hold,
\* unapply_migrations one it holds
ApplyCheck ==
    LoopHead("apply", FALSE)

UnapplyCheck ==
    LoopHead("unapply", TRUE)

\* one operation of migration.apply / migration.unapply runs; the database
\* may also fail for a reason of its own (fault)
RunOperation(kind, e, fault) ==
    /\ call.kind = kind /\ call.pc = "run"
    /\ LET r  == IF fault THEN [ok |-> FALSE, schema |-> schema]
                 ELSE IF e = "forward" THEN forward(Steps(call)[call.oi], schema)
                 ELSE reverse(Steps(call)[call.oi], schema)
           nx == after_operation(Len(Steps(call)), call.oi, r.ok)
       IN  /\ schema' = r.schema
           /\ call' = [call EXCEPT
                  !.log = Append(@, Event(e, call, Steps(call)[call.oi], r.ok)),
                  !.oi  = IF nx = "next" THEN @ + 1 ELSE @,
                  !.pc  = IF nx = "next" THEN "run"
                          ELSE IF after_migration(nx) = "record" THEN "record"
                          ELSE "idle",
                  !.outcome = IF nx # "next" /\ after_migration(nx) = "raise"
                              THEN "raised" ELSE @]
    /\ UNCHANGED <<ledger, ledgerTable, prev, qsVars, modVars, extVars>>

Forward(fault) ==
    RunOperation("apply", "forward", fault)

Reverse(fault) ==
    RunOperation("unapply", "reverse", fault)

RecordApplied ==
    /\ call.kind = "apply" /\ call.pc = "record"
    /\ ledger' = record_applied(ledger, Current(call).app_label, Current(call).name)
    /\ call' = [call EXCEPT !.log = Append(@, Event("record_applied", call, NoOperation, TRUE)),
                            !.k = @ + 1, !.oi = 0, !.pc = "check"]
    /\ UNCHANGED <<schema, ledgerTable, prev, qsVars, modVars, extVars>>

RecordUnapplied ==
    /\ call.kind = "unapply" /\ call.pc = "record"
    /\ ledger' = record_unapplied(ledger, Current(call).app_label, Current(call).name)
    /\ call' = [call EXCEPT !.log = Append(@, Event("record_unapplied", call, NoOperation, TRUE)),
                            !.k = @ + 1, !.oi = 0, !.pc = "check"]
    /\ UNCHANGED <<schema, ledgerTable, prev, qsVars, modVars, extVars>>

----------------------------------------------------------------------------
(* Two processes, each in one call of apply_migrations on the same          *)
(* database.  The steps above are those of the process that is running      *)
(* (call); the other one waits where it is (other), and the scheduler may   *)
(* switch between any two steps: apply_migrations takes no lock and opens   *)
(* no transaction around its check, its operations and its record.          *)

RaceLists == {<<Initial>>, <<Widen>>, <<Initial, Widen>>}

\* a process calls apply_migrations, once
BeginApply(migrations) ==
    /\ call.kind = "none"
    /\ ApplyMigrations(migrations)

\* the running process is suspended and the other one goes on
Switch ==
    /\ call # other
    /\ call' = other
    /\ other' = call
    /\ UNCHANGED <<schema, ledger, ledgerTable, prev, qsVars, modVars,
                   scope, racers, files, cli>>

----------------------------------------------------------------------------
(* Model instances and field validation (fastjango/db/models.py,            *)
(* fastjango/db/fields.py, fastjango/db/exceptions.py).                      *)
(*                                                                          *)
(* A Python value is [t, n]: its type and a number.  "numeral" is the str   *)
(* that spells the integer n, "word" a str of n letters that spells no       *)
(* number, "datetime" the instant n, "Field" a Field object (what an         *)
(* attribute lookup gives when the instance holds no value, because          *)
(* ModelMeta leaves the Field objects as class attributes).                  *)

PyNone      == [t |-> "None", n |-> 0]
PyInt(n)    == [t |-> "int", n |-> n]
Numeral(n)  == [t |-> "numeral", n |-> n]
Word(n)     == [t |-> "word", n |-> n]
Decimal(n)  == [t |-> "Decimal", n |-> n]
Datetime(n) == [t |-> "datetime", n |-> n]
FieldObject == [t |-> "Field", n |-> 0]

\* isinstance(value, str)
IsStr(value) == value.t \in {"numeral", "word"}

\* the number of characters of str(n), the minus sign included
RECURSIVE Digits(_)
Digits(n) ==
    IF n < 0 THEN 1 + Digits(-n)
    ELSE IF n < 10 THEN 1 ELSE 1 + Digits(n \div 10)

\* len(value) of a str
PyLen(value) == IF value.t = "numeral" THEN Digits(value.n) ELSE value.n

\* what an expression gives: a value, or the exception it raises.  An
\* exception carries message_dict: is it a mapping (dict) and its keys
Ok(value) == [exc |-> "none", value |-> value, dict |-> FALSE, keys |-> {}]
Exc(e)    == [exc |-> e, value |-> PyNone, dict |-> FALSE, keys |-> {}]

\* int(value)
int(value) ==
    CASE value.t \in {"int", "numeral", "Decimal"} -> Ok(PyInt(value.n))
      [] value.t = "word" -> Exc("ValueError")
      [] OTHER -> Exc("TypeError")

\* Decimal(str(value)): decimal.InvalidOperation is an ArithmeticError
DecimalOfStr(value) ==
    CASE value.t \in {"int", "numeral", "Decimal"} -> Ok(Decimal(value.n))
      [] OTHER -> Exc("InvalidOperation")

\* datetime.fromisoformat(value) of a str that spells no date
fromisoformat(value) == Exc("ValueError")

\* ValidationError(message): the first positional parameter of __init__ is
\* message_dict, and a non-empty one has .items() called on it, which a str
\* does not have: the statement raises AttributeError instead
ValidationErrorOfStr == Exc("AttributeError")

\* ValidationError(errors) with a non-empty dict
ValidationErrorOfDict(keys) ==
    [exc |-> "ValidationError", value |-> PyNone, dict |-> TRUE, keys |-> keys]

\* ValidationError(message=...): message_dict stays None
ValidationErrorOfMessage ==
    [exc |-> "ValidationError", value |-> PyNone, dict |-> FALSE, keys |-> {}]

\* the bounds of SmallIntegerField.validate
SmallIntegerMin == -32768
SmallIntegerMax == 32767

\* a field declaration: Field.__init__ and the subclasses' own parameters;
\* min_value / max_value are extra keyword arguments, kept as attributes
NewField(type) ==
    [type |-> type, null |-> FALSE, max_length |-> 255, max_digits |-> 10,
     bounded |-> FALSE, min_value |-> 0, max_value |-> 0,
     auto_now |-> FALSE, auto_now_add |-> FALSE]

\* Field.validate
Field_validate(field, value) ==
    IF value = PyNone
    THEN IF ~field.null THEN ValidationErrorOfStr ELSE Ok(PyNone)
    ELSE Ok(value)

CharField_validate(field, value) ==
    LET r == Field_validate(field, value) IN
    IF r.exc # "none" \/ r.value = PyNone THEN r
    ELSE IF ~IsStr(r.value) THEN ValidationErrorOfStr
    ELSE IF PyLen(r.value) > field.max_length THEN ValidationErrorOfStr
    ELSE r

\* IntegerField.validate: min_value / max_value are not looked at
IntegerField_validate(field, value) ==
    LET r == Field_validate(field, value) IN
    IF r.exc # "none" \/ r.value = PyNone THEN r
    ELSE IF int(r.value).exc \in {"ValueError", "TypeError"}
         THEN ValidationErrorOfStr
         ELSE int(r.value)

\* SmallIntegerField.validate: the range error is raised inside the try,
\* whose handler catches ValueError and TypeError only
SmallIntegerField_validate(field, value) ==
    LET r == Field_validate(field, value) IN
    IF r.exc # "none" \/ r.value = PyNone THEN r
    ELSE IF int(r.value).exc \in {"ValueError", "TypeError"}
         THEN ValidationErrorOfStr
         ELSE IF \/ int(r.value).value.n < SmallIntegerMin
                 \/ int(r.value).value.n > SmallIntegerMax
              THEN ValidationErrorOfStr
              ELSE int(r.value)

\* DecimalField.validate: the handler catches ValueError and TypeError, not
\* decimal.InvalidOperation
DecimalField_validate(field, value) ==
    LET r == Field_validate(field, value) IN
    IF r.exc # "none" \/ r.value = PyNone THEN r
    ELSE LET d == DecimalOfStr(r.value) IN
         IF d.exc \in {"ValueError", "TypeError"} THEN ValidationErrorOfStr
         ELSE IF d.exc # "none" THEN d
         ELSE IF Digits(d.value.n) > field.max_digits THEN ValidationErrorOfStr
         ELSE d

DateTimeField_validate(field, value) ==
    LET r == Field_validate(field, value) IN
    IF r.exc # "none" \/ r.value = PyNone THEN r
    ELSE IF IsStr(r.value)
         THEN IF fromisoformat(r.value).exc = "ValueError"
              THEN ValidationErrorOfStr ELSE fromisoformat(r.value)
         ELSE IF r.value.t # "datetime" THEN ValidationErrorOfStr
         ELSE r

\* field.validate(value), by the class of the field
validate(field, value) ==
    CASE field.type = "Field"             -> Field_validate(field, value)
      [] field.type = "CharField"         -> CharField_validate(field, value)
      [] field.type = "IntegerField"      -> IntegerField_validate(field, value)
      [] field.type = "SmallIntegerField" -> SmallIntegerField_validate(field, value)
      [] field.type = "DecimalField"      -> DecimalField_validate(field, value)
      [] field.type = "DateTimeField"     -> DateTimeField_validate(field, value)

----------------------------------------------------------------------------
(* The model class the instance claims are checked on, in the manner of     *)
(* the classes of example_orm_usage.py and test_fastjango_orm.py:           *)
(*     name       = CharField(max_length=2)                                 *)
(*     age        = IntegerField(min_value=0, max_value=2)                  *)
(*     created_at = DateTimeField(auto_now_add=True)                        *)
(*     updated_at = DateTimeField(auto_now=True)                            *)
(* Its clean() hook is user code: what it does is an input of the calls.    *)

\* cls._fields, in declaration order
FieldOrder == <<"name", "age", "created_at", "updated_at">>
FieldNames == Range(FieldOrder)

_fields ==
    [f \in FieldNames |->
        CASE f = "name" -> [NewField("CharField") EXCEPT !.max_length = 2]
          [] f = "age"  -> [NewField("IntegerField") EXCEPT
                               !.bounded = TRUE, !.min_value = 0, !.max_value = 2]
          [] f = "created_at" ->
                [NewField("DateTimeField") EXCEPT !.auto_now_add = TRUE]
          [] f = "updated_at" ->
                [NewField("DateTimeField") EXCEPT !.auto_now = TRUE]]

\* what clean() does: nothing; raise ValidationError({"name": ...}); raise
\* ValidationError(message=...); raise ValidationError("...")
Hooks == {"pass", "dict", "message", "str"}

\* an instance: attrs[f] is what getattr(self, f) gives, the Field object of
\* the class when the instance holds no value of its own; pk is 0 before the
\* INSERT; owner tells the session the instance belongs to: "none"
\* (transient), "live" (a session that still exists), "gone" (its session
\* was dropped: detached), "deleted"
NoInstance ==
    [attrs |-> [f \in FieldNames |-> FieldObject], pk |-> 0, owner |-> "absent"]

NewInstance == [NoInstance EXCEPT !.owner = "none"]

\* the outcome of a call on an instance: what it raised, the instance and
\* the table afterwards, and how often field.validate and clean() ran
Outcome(e, obj, table, validates, cleans) ==
    [exc |-> e.exc, dict |-> e.dict, keys |-> e.keys, inst |-> obj,
     table |-> table, validates |-> validates, cleans |-> cleans]

Min(S) == CHOOSE x \in S : \A y \in S : x <= y

\* F(x), with x evaluated once
Let(x, F(_)) == CHOOSE out \in {F(v) : v \in {x}} : TRUE

\* an exception full_clean does not catch
Escapes(r) == r.exc \notin {"none", "ValidationError"}

\* Model.__init__, first loop: validate and set the keyword arguments in
\* order; an exception of validate leaves the constructor.  results[i] is
\* what validate gives for the i-th argument, n the number of calls made
InitLoop(kwargs) ==
    Let([i \in DOMAIN kwargs |->
            validate(_fields[kwargs[i].name], kwargs[i].value)],
        LAMBDA results :
    LET stops   == {i \in DOMAIN kwargs : results[i].exc # "none"}
        n       == IF stops = {} THEN Len(kwargs) ELSE Min(stops)
    IN  [exc |-> IF stops = {} THEN Ok(PyNone) ELSE results[n],
         validates |-> n,
         inst |-> [NewInstance EXCEPT !.attrs =
                     [f \in FieldNames |->
                         IF \E i \in 1..n : kwargs[i].name = f
                         THEN results[CHOOSE i \in 1..n : kwargs[i].name = f].value
                         ELSE FieldObject]]])

\* hasattr(self, field_name): the class attribute is always found
hasattr(obj, f) == TRUE

\* Model.__init__, second loop: set the auto_now_add fields for which
\* not hasattr(self, f) or getattr(self, f) is None
SetAutoNowAdd(obj, now) ==
    [obj EXCEPT !.attrs =
        [f \in FieldNames |->
            IF /\ _fields[f].auto_now_add
               /\ (~hasattr(obj, f) \/ obj.attrs[f] = PyNone)
            THEN Datetime(now) ELSE obj.attrs[f]]]

\* Model(kwargs) at the instant now
__init__(kwargs, now, table) ==
    Let(InitLoop(kwargs), LAMBDA r :
    IF r.exc.exc # "none"
    THEN Outcome(r.exc, NoInstance, table, r.validates, 0)
    ELSE Outcome(r.exc, SetAutoNowAdd(r.inst, now), table, r.validates, 0))

\* Model.full_clean, the loop over the fields in declaration order: the
\* value validate returns is set, a ValidationError of validate is collected
\* under the field name, any other exception leaves full_clean.  n is the
\* number of validate calls made
CleanLoop(obj, excluded) ==
    Let([f \in FieldNames |-> validate(_fields[f], obj.attrs[f])],
        LAMBDA results :
    LET checked == SelectSeq(FieldOrder, LAMBDA f : f \notin excluded)
        stops   == {i \in DOMAIN checked : Escapes(results[checked[i]])}
        n       == IF stops = {} THEN Len(checked) ELSE Min(stops)
        visited == {checked[i] : i \in 1..n}
    IN  [exc |-> IF stops = {} THEN Ok(PyNone) ELSE results[checked[n]],
         validates |-> n,
         errors |-> {f \in visited : results[f].exc = "ValidationError"},
         inst |-> [obj EXCEPT !.attrs =
                     [f \in FieldNames |->
                         IF f \in visited /\ results[f].exc = "none"
                         THEN results[f].value ELSE obj.attrs[f]]]])

\* self.clean() as the hook behaves
clean(hook) ==
    CASE hook = "pass"    -> Ok(PyNone)
      [] hook = "dict"    -> ValidationErrorOfDict({"name"})
      [] hook = "message" -> ValidationErrorOfMessage
      [] hook = "str"     -> ValidationErrorOfStr

\* Model.full_clean: every caught ValidationError has the attribute
\* message_dict, so errors.update(e.message_dict) runs, with None when the
\* error was built from a message
full_clean(obj, excluded, hook, table) ==
    Let(CleanLoop(obj, excluded), LAMBDA l :
    IF l.exc.exc # "none" THEN Outcome(l.exc, l.inst, table, l.validates, 0)
    ELSE LET c == clean(hook) IN
         IF c.exc = "none"
         THEN IF l.errors # {}
              THEN Outcome(ValidationErrorOfDict(l.errors), l.inst, table,
                           l.validates, 1)
              ELSE Outcome(Ok(PyNone), l.inst, table, l.validates, 1)
         ELSE IF c.exc # "ValidationError"
         THEN Outcome(c, l.inst, table, l.validates, 1)
         ELSE IF ~c.dict
         THEN Outcome(Exc("TypeError"), l.inst, table, l.validates, 1)
         ELSE Outcome(ValidationErrorOfDict(l.errors \cup c.keys), l.inst,
                      table, l.validates, 1))

\* the row of an instance; a Field object is no column value, the column
\* gets NULL
RowOf(obj, id) ==
    [id |-> id] @@
    [f \in FieldNames |->
        IF obj.attrs[f] = FieldObject THEN PyNone ELSE obj.attrs[f]]

NextId(table) ==
    IF table = <<>> THEN 1 ELSE Max({table[i].id : i \in DOMAIN table}) + 1

\* session.add(obj); session.commit() of a new session: an instance of
\* another live session is refused by add, the INSERT of NULL into a
\* column declared nullable=False by the database
AddAndCommit(obj, table, kept, validates, cleans) ==
    IF obj.owner = "live"
    THEN Outcome(Exc("InvalidRequestError"), obj, table, validates, cleans)
    ELSE IF \E f \in FieldNames : ~_fields[f].null /\ RowOf(obj, 0)[f] = PyNone
    THEN Outcome(Exc("IntegrityError"), obj, table, validates, cleans)
    ELSE Outcome(Ok(PyNone),
                 [obj EXCEPT !.pk = NextId(table),
                             !.owner = IF kept THEN "live" ELSE "gone"],
                 Append(table, RowOf(obj, NextId(table))), validates, cleans)

\* Model.save, the loop that sets every auto_now field to datetime.now()
SetAutoNow(obj, now) ==
    [obj EXCEPT !.attrs =
        [f \in FieldNames |->
            IF _fields[f].auto_now THEN Datetime(now) ELSE obj.attrs[f]]]

\* Model.save: set the auto_now fields, full_clean(), add and commit
save(obj, now, hook, table, kept) ==
    Let(full_clean(SetAutoNow(obj, now), {}, hook, table), LAMBDA v :
        IF v.exc # "none" THEN v
        ELSE AddAndCommit(v.inst, table, kept, v.validates, v.cleans))

\* QuerySet.create (Manager.create passes on to it): construct, add, commit
create(kwargs, now, table, kept) ==
    Let(__init__(kwargs, now, table), LAMBDA c :
        IF c.exc # "none" THEN c
        ELSE AddAndCommit(c.inst, table, kept, c.validates, c.cleans))

\* Model.delete: session.delete(self) of a new session refuses an instance
\* that was never persisted and one that belongs to another live session;
\* commit deletes the row of the primary key
Model_delete(obj, table) ==
    IF obj.owner \in {"none", "live"}
    THEN Outcome(Exc("InvalidRequestError"), obj, table, 0, 0)
    ELSE Outcome(Ok(PyNone), [obj EXCEPT !.owner = "deleted"],
                 SelectSeq(table, LAMBDA r : r.id # obj.pk), 0, 0)

----------------------------------------------------------------------------
(* Inputs of the instance calls *)

KW(name, value) == [name |-> name, value |-> value]

\* the instants datetime.now() may give
Instants == {1, 2}

\* keyword arguments of Model(...) and Manager.create(...)
ConstructInputs ==
    {<<KW("name", Word(1)), KW("age", PyInt(1)),
       KW("created_at", Datetime(1)), KW("updated_at", Datetime(1))>>,
     <<KW("name", Word(2)), KW("age", Numeral(2)),
       KW("updated_at", Datetime(1))>>,
     <<KW("name", Word(1)), KW("age", PyInt(3)),
       KW("created_at", Datetime(1)), KW("updated_at", Datetime(1))>>,
     <<KW("name", Word(3)), KW("age", PyInt(1))>>,
     <<KW("age", Word(1))>>,
     <<>>}

\* instance.name = value assignments made after construction
SetAttrInputs ==
    {KW("name", Word(3)), KW("age", PyInt(3)), KW("age", Word(1)),
     KW("created_at", Datetime(1))}

\* the excluded argument of full_clean
ExcludeInputs == {{}, {"created_at"}, {"created_at", "updated_at"}}

\* field declarations and values field.validate is called with
FieldInputs ==
    {NewField("Field"),
     [NewField("Field") EXCEPT !.null = TRUE],
     [NewField("CharField") EXCEPT !.max_length = 2],
     NewField("IntegerField"),
     [NewField("IntegerField") EXCEPT !.null = TRUE],
     [NewField("IntegerField") EXCEPT
         !.bounded = TRUE, !.min_value = 0, !.max_value = 2],
     NewField("SmallIntegerField"),
     [NewField("DecimalField") EXCEPT !.max_digits = 2],
     NewField("DateTimeField")}

ValueInputs ==
    {PyNone, PyInt(1), PyInt(3), PyInt(-1), PyInt(40000), Numeral(7),
     Word(1), Word(3), Decimal(5), Decimal(123), Datetime(1), FieldObject}

----------------------------------------------------------------------------
(* The instance calls as actions.  `instance` is the instance the caller works  *)
(* with, `stored` the table of the model class, `done` the last call.       *)

NoDone ==
    [op |-> "none", exc |-> "none", dict |-> FALSE, keys |-> {},
     kwargs |-> <<>>, hook |-> "pass", now |-> 0, exclude |-> {},
     validates |-> 0, cleans |-> 0,
     field |-> NewField("Field"), value |-> PyNone, result |-> PyNone]

\* the record of a call with outcome r
Done(op, r) ==
    [NoDone EXCEPT !.op = op, !.exc = r.exc, !.dict = r.dict, !.keys = r.keys,
                   !.validates = r.validates, !.cleans = r.cleans]

\* obj = Model(kwargs)
Construct(kwargs, now) ==
    \E r \in {__init__(kwargs, now, stored)} :
        /\ instance' = IF r.exc = "none" THEN r.inst ELSE instance
        /\ done' = [Done("init", r) EXCEPT !.kwargs = kwargs, !.now = now]
        /\ UNCHANGED <<stored, qsVars, migVars, extVars>>

\* obj.name = value
SetAttr(kw) ==
    /\ instance.owner # "absent"
    /\ instance' = [instance EXCEPT !.attrs[kw.name] = kw.value]
    /\ done' = [NoDone EXCEPT !.op = "setattr", !.kwargs = <<kw>>]
    /\ UNCHANGED <<stored, qsVars, migVars, extVars>>

\* obj.full_clean(excluded)
FullClean(excluded, hook) ==
    /\ instance.owner # "absent"
    /\ \E r \in {full_clean(instance, excluded, hook, stored)} :
          /\ instance' = r.inst
          /\ done' = [Done("full_clean", r) EXCEPT !.exclude = excluded,
                                                   !.hook = hook]
    /\ UNCHANGED <<stored, qsVars, migVars, extVars>>

\* obj.save(); the session of the call is dropped or kept alive afterwards
Save(now, hook, kept) ==
    /\ instance.owner \in {"none", "live"}
    /\ Len(stored) < MaxRows /\ NextId(stored) <= MaxId
    /\ \E r \in {save(instance, now, hook, stored, kept)} :
          /\ instance' = r.inst
          /\ stored' = r.table
          /\ done' = [Done("save", r) EXCEPT !.now = now, !.hook = hook]
    /\ UNCHANGED <<qsVars, migVars, extVars>>

\* obj.delete()
Delete ==
    /\ instance.owner \in {"none", "live", "gone"}
    /\ \E r \in {Model_delete(instance, stored)} :
          /\ instance' = r.inst
          /\ stored' = r.table
          /\ done' = Done("delete", r)
    /\ UNCHANGED <<qsVars, migVars, extVars>>

\* obj = Model.objects.create(kwargs)
Create(kwargs, now, kept) ==
    /\ Len(stored) < MaxRows /\ NextId(stored) <= MaxId
    /\ \E r \in {create(kwargs, now, stored, kept)} :
          /\ instance' = IF r.exc = "none" THEN r.inst ELSE instance
          /\ stored' = r.table
          /\ done' = [Done("create", r) EXCEPT !.kwargs = kwargs, !.now = now]
    /\ UNCHANGED <<qsVars, migVars, extVars>>

\* qs = Model.objects.filter(...); obj = qs.first(): the instance of a
\* stored row, loaded by the session of a QuerySet the caller keeps
Fetch(k) ==
    /\ k \in DOMAIN stored
    /\ instance' = [attrs |-> [f \in FieldNames |-> stored[k][f]],
                pk |-> stored[k].id, owner |-> "live"]
    /\ done' = [NoDone EXCEPT !.op = "fetch"]
    /\ UNCHANGED <<stored, qsVars, migVars, extVars>>

\* field.validate(value) on a field of its own
Validate(field, value) ==
    LET r == validate(field, value) IN
    /\ done' = [NoDone EXCEPT !.op = "validate", !.exc = r.exc,
                              !.dict = r.dict, !.keys = r.keys,
                              !.field = field, !.value = value,
                              !.result = r.value, !.validates = 1]
    /\ UNCHANGED <<instance, stored, qsVars, migVars, extVars>>

----------------------------------------------------------------------------
(* session_scope (fastjango/db/connection.py): a context manager around a   *)
(* new session.  The body adds instances to the session; they are pending   *)
(* until the session commits, and a rollback or a close discards them.      *)

\* session.commit(): the pending instances are inserted in the order added
RECURSIVE Commit(_, _)
Commit(table, pending) ==
    IF pending = <<>> THEN table
    ELSE Commit(Insert_row(table, Head(pending)), Tail(pending))

\* a session_scope that commits on every exit path
session_scope_committing(exit, pending, table) ==
    [calls |-> <<"commit", "close">>, table |-> Commit(table, pending),
     raised |-> exit]

\* session_scope after its body ended: `exit` is "none" when the body ran to
\* its end, "Exception" when it raised an Exception, "BaseException" when it
\* raised something else (KeyboardInterrupt, SystemExit), which the except
\* clause does not catch; close() ends the transaction of a session that
\* did not commit
session_scope(exit, pending, table) ==
    CASE exit = "none" ->
            [calls |-> <<"commit", "close">>, table |-> Commit(table, pending),
             raised |-> "none"]
      [] exit = "Exception" ->
            [calls |-> <<"rollback", "close">>, table |-> table,
             raised |-> exit]
      [] OTHER ->
            [calls |-> <<"close">>, table |-> table, raised |-> exit]

\* what a body may raise
RaiseInputs == {"Exception", "BaseException"}

NoScope ==
    [pc |-> "out", pending |-> <<>>, calls |-> <<>>, exit |-> "none",
     raised |-> "none", table0 |-> <<>>]

\* with session_scope() as session: get_session(), then the body begins
EnterScope ==
    /\ scope.pc = "out"
    /\ scope' = [NoScope EXCEPT !.pc = "body", !.table0 = rows]
    /\ UNCHANGED <<qsVars, migVars, modVars, racers, files, cli, other>>

\* session.add(Model(kwargs)) in the body
ScopeAdd(kwargs) ==
    /\ scope.pc = "body"
    /\ Len(rows) + Len(scope.pending) < MaxRows
    /\ \A k \in DOMAIN rows : rows[k].id + Len(scope.pending) < MaxId
    /\ scope' = [scope EXCEPT !.pending = Append(@, Instance(kwargs))]
    /\ UNCHANGED <<qsVars, migVars, modVars, racers, files, cli, other>>

\* the body ends (exit = "none") or raises
LeaveScope(exit) ==
    /\ scope.pc = "body"
    /\ \E r \in {session_scope(exit, scope.pending, rows)} :
          /\ rows' = r.table
          /\ scope' = [scope EXCEPT !.pc = "out", !.calls = r.calls,
                                    !.exit = exit, !.raised = r.raised]
    /\ UNCHANGED <<heap, qsets, last, migVars, modVars, racers, files, cli, other>>

\* rows leave the table between two blocks
ScopeDelete(kwargs) ==
    /\ scope.pc = "out"
    /\ FilterDelete(kwargs)

----------------------------------------------------------------------------
(* Two callers of Model.objects.get_or_create, each with its own QuerySet   *)
(* and session against the same table.  A call is two steps: the SELECT of  *)
(* self.get, and what follows it.                                           *)

Callers == {1, 2}

NoRacer ==
    [pc |-> "idle", kwargs |-> <<>>, got |-> CallRaised("none", <<>>, 0),
     miss |-> FALSE, created |-> FALSE, err |-> "none"]

\* obj = self.get(kwargs): the statement runs against the table as it is now
RaceGet(p, kwargs) ==
    /\ racers[p].pc = "idle"
    /\ \E g \in {get(get_queryset.h, get_queryset.q, kwargs, rows)} :
          racers' = [racers EXCEPT ![p] =
                        [NoRacer EXCEPT !.pc = "got", !.kwargs = kwargs,
                                        !.got = g, !.miss = (g.out = <<>>)]]
    /\ UNCHANGED <<qsVars, migVars, modVars, scope, files, cli, other>>

\* the rest of get_or_create: return, or create in the except clause
RaceFinish(p) ==
    /\ racers[p].pc = "got"
    /\ \E r \in {after_get(racers[p].got, <<>>, racers[p].kwargs, rows)} :
          /\ Len(r.table) <= MaxRows
          /\ rows' = r.table
          /\ racers' = [racers EXCEPT ![p].pc = "done",
                                      ![p].created = r.created,
                                      ![p].err = r.err]
    /\ UNCHANGED <<heap, qsets, last, migVars, modVars, scope, files, cli, other>>

\* the call is over, the caller may call again
RaceAgain(p) ==
    /\ racers[p].pc = "done"
    /\ racers' = [racers EXCEPT ![p] = NoRacer]
    /\ UNCHANGED <<qsVars, migVars, modVars, scope, files, cli, other>>

----------------------------------------------------------------------------
(* The makemigrations and migrate commands (fastjango/cli/commands) and the *)
(* MigrationLoader, for the one app "shop".  A migration file is            *)
(* [dir, stamp, migration]: the directory it lies in, the timestamp its     *)
(* file name begins with (0: none, the file name is the migration's name),  *)
(* and the Migration object its module defines.  Its stem is                *)
(* "<stamp>_<name>" or "<name>".  Commands run one at a time.               *)

\* Path.cwd() / app_label / "migrations", where create_migration_file writes
\* and which migrate hands to the MigrationLoader as migrations_dir
MigrationsDir == "shop/migrations"
\* migrations_dir / app_label, where the MigrationLoader reads
LoaderDir == "shop/migrations/shop"

\* the migration names in lexicographic order
NameOrder == <<"0001_initial", "0002_index", "0003_retype">>
NameRank(name) == CHOOSE i \in DOMAIN NameOrder : NameOrder[i] = name

\* stem(f) < stem(g) as strings: a digit string without timestamp begins
\* with "0" and sorts before every timestamp
StemBefore(f, g) ==
    \/ f.stamp < g.stamp
    \/ f.stamp = g.stamp
          /\ NameRank(f.migration.name) < NameRank(g.migration.name)

\* sorted(...) of a set of files by stem
RECURSIVE Sorted(_)
Sorted(S) ==
    IF S = {} THEN <<>>
    ELSE LET f == CHOOSE x \in S : \A y \in S \ {x} : StemBefore(x, y)
         IN  <<f>> \o Sorted(S \ {f})

\* create_migration_file: <timestamp>_<migration_name>.py in MigrationsDir,
\* its module defines Migration(name=migration_name, ...)
create_migration_file(fs, migration, now) ==
    fs \cup {[dir |-> MigrationsDir, stamp |-> now, migration |-> migration]}

\* MigrationLoader.get_migration_files: the sorted stems of app_dir
get_migration_files(fs) == Sorted({f \in fs : f.dir = LoaderDir})

\* MigrationLoader.load_migration(app_label, name): the file
\* <name>.py of app_dir, FileNotFoundError (ok = FALSE) when there is none
load_migration(fs, name) ==
    LET found == {f \in fs : f.dir = LoaderDir /\ f.stamp = 0
                                /\ f.migration.name = name}
    IN  IF found = {} THEN [ok |-> FALSE, migration |-> Migration(name, "shop", <<>>)]
        ELSE [ok |-> TRUE, migration |-> (CHOOSE f \in found : TRUE).migration]

\* Migration.apply / Migration.unapply: the operations in order (reversed
\* order), the first that raises ends it
RECURSIVE RunAll(_, _, _)
RunAll(ops, sch, fwd) ==
    IF ops = <<>> THEN [ok |-> TRUE, schema |-> sch]
    ELSE LET r == IF fwd THEN forward(Head(ops), sch) ELSE reverse(Head(ops), sch)
         IN  IF ~r.ok THEN r ELSE RunAll(Tail(ops), r.schema, fwd)

apply(migration, sch) == RunAll(migration.operations, sch, TRUE)
unapply(migration, sch) == RunAll(reversed(migration.operations), sch, FALSE)

\* apply_migrations run from its first statement to its last
RECURSIVE apply_migrations(_, _, _)
apply_migrations(migrations, led, sch) ==
    IF migrations = <<>> THEN [ok |-> TRUE, ledger |-> led, schema |-> sch]
    ELSE LET m == Head(migrations) IN
         IF is_applied(get_applied_migrations(led), m)
         THEN apply_migrations(Tail(migrations), led, sch)
         ELSE LET r == apply(m, sch) IN
              IF after_migration(IF r.ok THEN "return" ELSE "raise") = "raise"
              THEN [ok |-> FALSE, ledger |-> led, schema |-> r.schema]
              ELSE apply_migrations(Tail(migrations),
                                    record_applied(led, m.app_label, m.name),
                                    r.schema)

\* get_pending_migrations: the loaded migrations whose (app_label, name) is
\* not in the ledger, in loader order
get_pending_migrations(fs, led) ==
    LET loaded == get_migration_files(fs)
        all_migrations == [k \in DOMAIN loaded |-> loaded[k].migration]
    IN  SelectSeq(all_migrations,
                  LAMBDA m : ~is_applied(get_applied_migrations(led), m))

\* record_applied for every pending migration, in order
RECURSIVE FakeAll(_, _)
FakeAll(migrations, led) ==
    IF migrations = <<>> THEN led
    ELSE FakeAll(Tail(migrations),
                 record_applied(led, "shop", Head(migrations).name))

\* what a command gives back: its return value ("int" n, "bool" n with 1
\* for True) or the CommandError it raises, and the ledger and schema it
\* leaves
Gave(t, n, led, sch) ==
    [result |-> [t |-> t, n |-> n], ledger |-> led, schema |-> sch]

\* migrate_app(app_label, fake)
migrate_app(fs, fake, led, sch) ==
    LET pending == get_pending_migrations(fs, led) IN
    IF pending = <<>> THEN Gave("int", 0, led, sch)
    ELSE IF fake THEN Gave("int", Len(pending), FakeAll(pending, led), sch)
    ELSE LET r == apply_migrations(pending, led, sch)
         IN  IF r.ok THEN Gave("int", Len(pending), r.ledger, r.schema)
             ELSE Gave("CommandError", 0, r.ledger, r.schema)

\* rollback_migration(app_label, migration_name)
rollback_migration(fs, name, led, sch) ==
    LET l == load_migration(fs, name) IN
    IF ~l.ok THEN Gave("CommandError", 0, led, sch)
    ELSE IF ~is_applied(get_applied_migrations(led), Migration(name, "shop", <<>>))
    THEN Gave("bool", 0, led, sch)
    ELSE LET r == unapply(l.migration, sch)
         IN  IF ~r.ok THEN Gave("CommandError", 0, led, r.schema)
             ELSE Gave("bool", 1, record_unapplied(led, "shop", name), r.schema)

\* the migrations the app's models give rise to, and when files are made
Generated == {Initial, AddIndex}
Stamps == {1, 2}
MaxFiles == 3

NoCommand ==
    [op |-> "none", name |-> "", fake |-> FALSE,
     result |-> [t |-> "None", n |-> 0]]

\* makemigrations <app> --name <name>
MakeMigrations(migration, now) ==
    /\ Cardinality(files) < MaxFiles
    /\ files' = create_migration_file(files, migration, now)
    /\ cli' = [NoCommand EXCEPT !.op = "makemigrations",
                                !.name = migration.name]
    /\ UNCHANGED <<qsVars, migVars, modVars, scope, racers, other>>

\* the developer copies a generated file to where the loader reads
CopyFile(f) ==
    /\ f.dir = MigrationsDir
    /\ Cardinality(files) < MaxFiles
    /\ files' = files \cup {[f EXCEPT !.dir = LoaderDir]}
    /\ cli' = NoCommand
    /\ UNCHANGED <<qsVars, migVars, modVars, scope, racers, other>>

\* the developer writes <name>.py by hand where the loader reads
WriteFile(migration) ==
    /\ Cardinality(files) < MaxFiles
    /\ files' = files \cup
                  {[dir |-> LoaderDir, stamp |-> 0, migration |-> migration]}
    /\ cli' = NoCommand
    /\ UNCHANGED <<qsVars, migVars, modVars, scope, racers, other>>

\* migrate <app> [--fake]
Migrate(fake) ==
    /\ \E r \in {migrate_app(files, fake, ledger, schema)} :
          /\ ledger' = r.ledger
          /\ schema' = r.schema
          /\ cli' = [NoCommand EXCEPT !.op = "migrate", !.fake = fake,
                                      !.result = r.result]
    /\ ledgerTable' = TRUE
    /\ UNCHANGED <<call, prev, files, qsVars, modVars, scope, racers, other>>

\* migrate <app> --rollback <name>
Rollback(name) ==
    /\ \E r \in {rollback_migration(files, name, ledger, schema)} :
          /\ ledger' = r.ledger
          /\ schema' = r.schema
          /\ cli' = [NoCommand EXCEPT !.op = "rollback", !.name = name,
                                      !.result = r.result]
    /\ ledgerTable' = TRUE
    /\ UNCHANGED <<call, prev, files, qsVars, modVars, scope, racers, other>>

----------------------------------------------------------------------------
(* Specifications *)

InitQS ==
    /\ rows = <<>>
    /\ heap = NewQuerySet(<<>>).h
    /\ qsets = <<NewQuerySet(<<>>).q>>
    /\ last = NoCall

InitMig ==
    /\ schema = [tables |-> {}, columns |-> {}, indexes |-> {}]
    /\ ledger = <<>>
    /\ ledgerTable = FALSE
    /\ call = NoMigrationCall
    /\ prev = Summary(NoMigrationCall)

InitModel ==
    /\ instance = NoInstance
    /\ stored = <<>>
    /\ done = NoDone

InitExt ==
    /\ scope = NoScope
    /\ racers = [p \in Callers |-> NoRacer]
    /\ files = {}
    /\ cli = NoCommand
    /\ other = NoMigrationCall

Init == InitQS /\ InitMig /\ InitModel /\ InitExt

NextChain ==
    \/ \E i \in DOMAIN qsets, kwargs \in KwargsInputs : Filter(i, kwargs)
    \/ \E i \in DOMAIN qsets, kwargs \in KwargsInputs : Exclude(i, kwargs)
    \/ \E i \in DOMAIN qsets, fields \in OrderInputs : OrderBy(i, fields)
    \/ \E i \in DOMAIN qsets : Distinct(i)
    \/ \E i \in DOMAIN qsets, n \in LimitInputs : Limit(i, n)
    \/ \E i \in DOMAIN qsets, n \in OffsetInputs : Offset(i, n)

SpecChain == Init /\ [][NextChain]_vars

NextManager ==
    \/ ManagerAll
    \/ ManagerFirst
    \/ \E kwargs \in KwargsInputs : ManagerGet(kwargs)
    \/ \E kwargs \in KwargsInputs, d \in DefaultsInputs :
          ManagerGetOrCreate(d, kwargs)
    \/ \E kwargs \in CreateInputs : ManagerCreate(kwargs)
    \/ \E kwargs \in KwargsInputs, changes \in UpdateInputs :
          FilterUpdate(kwargs, changes)
    \/ \E kwargs \in KwargsInputs : FilterDelete(kwargs)

SpecManager == Init /\ [][NextManager]_vars

\* QuerySets built step by step and evaluated while the table fills
EvalKwargs == {<<KV("a", NoLookup, 1)>>}
EvalOrder  == {<< <<"b">> >>}
EvalRows   == {<<KV("a", NoLookup, 1), KV("b", NoLookup, 2)>>,
               <<KV("a", NoLookup, 1), KV("b", NoLookup, 1)>>,
               <<KV("a", NoLookup, 2), KV("b", NoLookup, 1)>>}

NextEval ==
    \/ \E i \in DOMAIN qsets, kwargs \in EvalKwargs : Filter(i, kwargs)
    \/ \E i \in DOMAIN qsets, kwargs \in EvalKwargs : Exclude(i, kwargs)
    \/ \E i \in DOMAIN qsets, fields \in EvalOrder : OrderBy(i, fields)
    \/ \E i \in DOMAIN qsets : Distinct(i)
    \/ \E i \in DOMAIN qsets, n \in LimitInputs : Limit(i, n)
    \/ \E i \in DOMAIN qsets, n \in OffsetInputs : Offset(i, n)
    \/ \E i \in DOMAIN qsets : All(i)
    \/ \E i \in DOMAIN qsets : First(i)
    \/ \E i \in DOMAIN qsets : Last(i)
    \/ \E i \in DOMAIN qsets : CountRows(i)
    \/ \E i \in DOMAIN qsets : LenRows(i)
    \/ \E kwargs \in EvalRows : ManagerCreate(kwargs)

SpecEval == Init /\ [][NextEval]_vars

NextScope ==
    \/ EnterScope
    \/ \E kwargs \in CreateInputs : ScopeAdd(kwargs)
    \/ LeaveScope("none")
    \/ \E exit \in RaiseInputs : LeaveScope(exit)
    \/ \E kwargs \in EvalKwargs : ScopeDelete(kwargs)

SpecScope == Init /\ [][NextScope]_vars

RaceKwargs == {<<KV("a", NoLookup, 1)>>, <<KV("b", NoLookup, 1)>>}

NextRace ==
    \/ \E p \in Callers, kwargs \in RaceKwargs : RaceGet(p, kwargs)
    \/ \E p \in Callers : RaceFinish(p)
    \/ \E p \in Callers : RaceAgain(p)
    \/ \E kwargs \in EvalRows : ManagerCreate(kwargs)

SpecRace == Init /\ [][NextRace]_vars

NextCommands ==
    \/ \E m \in Generated, now \in Stamps : MakeMigrations(m, now)
    \/ \E f \in files : CopyFile(f)
    \/ \E m \in Generated : WriteFile(m)
    \/ \E fake \in BOOLEAN : Migrate(fake)
    \/ \E m \in Generated : Rollback(m.name)

SpecCommands == Init /\ [][NextCommands]_vars

NextTwoProcesses ==
    \/ \E migrations \in RaceLists : BeginApply(migrations)
    \/ ApplyCheck
    \/ \E fault \in BOOLEAN : Forward(fault)
    \/ RecordApplied
    \/ Switch

SpecTwoProcesses == Init /\ [][NextTwoProcesses]_vars

NextMigrate ==
    \/ \E migrations \in ListInputs : ApplyMigrations(migrations)
    \/ \E migrations \in ListInputs : UnapplyMigrations(migrations)
    \/ ApplyCheck
    \/ UnapplyCheck
    \/ \E fault \in BOOLEAN : Forward(fault)
    \/ \E fault \in BOOLEAN : Reverse(fault)
    \/ RecordApplied
    \/ RecordUnapplied

SpecMigrate == Init /\ [][NextMigrate]_vars

\* an instance in memory: constructed, assigned to, validated
NextInstance ==
    \/ \E kwargs \in ConstructInputs, now \in Instants : Construct(kwargs, now)
    \/ \E kw \in SetAttrInputs : SetAttr(kw)
    \/ \E excluded \in ExcludeInputs, hook \in Hooks :
          FullClean(excluded, hook)

SpecInstance == Init /\ [][NextInstance]_vars

\* an instance and the table: constructed, assigned to, saved, created,
\* loaded, deleted
NextPersist ==
    \/ \E kwargs \in ConstructInputs, now \in Instants : Construct(kwargs, now)
    \/ \E kw \in SetAttrInputs : SetAttr(kw)
    \/ \E now \in Instants, hook \in Hooks, kept \in BOOLEAN :
          Save(now, hook, kept)
    \/ Delete
    \/ \E kwargs \in ConstructInputs, now \in Instants, kept \in BOOLEAN :
          Create(kwargs, now, kept)
    \/ \E k \in 1..MaxRows : Fetch(k)

SpecPersist == Init /\ [][NextPersist]_vars

NextFields ==
    \E field \in FieldInputs, value \in ValueInputs : Validate(field, value)

SpecFields == Init /\ [][NextFields]_vars

----------------------------------------------------------------------------
(* What the claims are stated with *)

\* the state of a QuerySet: its lists looked up in the heap
Deref(h, q) ==
    [filters |-> h[q.filters], order_by |-> h[q.order_by],
     limit |-> q.limit, offset |-> q.offset, distinct |-> q.distinct]

\* the lookups of the lookup DSL
SupportedLookups == ComparisonLookups \cup OtherLookups \cup {"isnull"}

HasUnknownLookup(kwargs) ==
    \E i \in DOMAIN kwargs :
        /\ HasDunder(kwargs[i].key)
        /\ kwargs[i].key.lookup \notin SupportedLookups

\* the truth value of one keyword lookup on a row
Holds3(kv, r) ==
    LET x == r[kv.key.name] IN
    CASE kv.key.lookup \in {NoLookup, "exact"} -> Cmp3("eq", x, kv.value)
      [] kv.key.lookup \in {"gt", "gte", "lt", "lte"} ->
            Cmp3(kv.key.lookup, x, kv.value)
      [] kv.key.lookup = "isnull" -> Bool3((x = Null) = (kv.value # 0))

\* the conjunction of the keyword lookups of one call on a row
RECURSIVE AllHold3(_, _)
AllHold3(kwargs, r) ==
    IF kwargs = <<>> THEN "T"
    ELSE And3(Holds3(Head(kwargs), r), AllHold3(Tail(kwargs), r))

\* the rows of the table that match the keyword lookups
Matching(kwargs, table) == SelectSeq(table, LAMBDA r : AllHold3(kwargs, r) = "T")

\* the rows QuerySet Q returns when only the rows satisfying keep(r) are
\* left in the table: Q's own filters, ordering, distinct, offset and limit
RowsOfWhere(h, Q, table, keep(_)) ==
    all(h, Q, SelectSeq(table, keep))

(* C1: a chaining call (filter, exclude, order_by, limit, offset, distinct)
   returns a new QuerySet and leaves every existing QuerySet, the receiver
   included, with the same filters, ordering, limit, offset and distinct
   flag, so that all() on it returns the same rows of every table as before
   the call. *)
C1_ChainingLeavesReceiver ==
    [][ /\ \A i \in DOMAIN qsets :
             /\ i \in DOMAIN qsets'
             /\ Deref(heap', qsets'[i]) = Deref(heap, qsets[i])
             /\ \A t \in Tables :
                    all(heap', qsets'[i], t) = all(heap, qsets[i], t)
        /\ (last'.err = "none" /\ last' # last)
              => last'.ret \in DOMAIN qsets' \ DOMAIN qsets ]_vars

\* a filter() returned a QuerySet whose rows differ from its receiver's
C1_Witness ==
    /\ last.op = "filter" /\ last.err = "none"
    /\ Deref(heap, qsets[last.ret]).filters # Deref(heap, qsets[last.recv]).filters
    /\ \E t \in Tables :
          all(heap, qsets[last.ret], t) # all(heap, qsets[last.recv], t)

(* C2: get(kwargs) returns the row when exactly one row matches, raises
   DoesNotExist when none matches and MultipleObjectsReturned when two or
   more match; it never returns None. *)
C2_GetCardinality ==
    (last.op = "get" /\ ~HasUnknownLookup(last.args)) =>
        LET m == Matching(last.args, rows) IN
        /\ Len(m) = 1 => (last.err = "none" /\ last.out = m)
        /\ Len(m) = 0 => last.err = "DoesNotExist"
        /\ Len(m) >= 2 => last.err = "MultipleObjectsReturned"
        /\ last.err = "none" => last.out # <<>>

(* C3: from a table with no row matching the lookup, get_or_create returns
   (instance, True) and one matching row exists afterwards; the same call
   made again right after returns (instance, False) and adds no row. *)
C3_GetOrCreateTwice ==
    [][ /\ ( /\ last'.op = "get_or_create"
             /\ ~HasUnknownLookup(last'.args)
             /\ Matching(last'.args, rows) = <<>> )
           => /\ last'.err = "none"
              /\ last'.created
              /\ Len(last'.out) = 1
              /\ Matching(last'.args, rows') = last'.out
        /\ ( /\ last.op = "get_or_create" /\ last.created
             /\ last'.op = "get_or_create"
             /\ last'.args = last.args /\ last'.defaults = last.defaults )
           => /\ ~last'.created
              /\ last'.out = last.out
              /\ rows' = rows ]_vars

(* C4: Q.exclude(k1=v1).exclude(k2=v2) returns exactly the rows of Q that
   satisfy NOT(k1=v1) AND NOT(k2=v2), for every table. *)
C4_ChainedExcludes ==
    [][ ( /\ last.op = "exclude" /\ last.err = "none" /\ Len(last.args) = 1
          /\ last'.op = "exclude" /\ last'.err = "none" /\ Len(last'.args) = 1
          /\ last'.recv = last.ret
          /\ last'.ret \in DOMAIN qsets' \ DOMAIN qsets )
        => \A t \in Tables :
              all(heap', qsets'[last'.ret], t) =
                 RowsOfWhere(heap, qsets[last.recv], t,
                     LAMBDA r : /\ Not3(Holds3(last.args[1], r)) = "T"
                                /\ Not3(Holds3(last'.args[1], r)) = "T") ]_vars

\* exclude(a=1) then exclude(b=2) on the result, which drops a row of Q
C4_Witness ==
    /\ Len(qsets) = 3
    /\ last.op = "exclude" /\ last.err = "none" /\ last.recv = 2 /\ last.ret = 3
    /\ Deref(heap, qsets[2]).filters = <<ColumnOp("ne", "a", 1)>>
    /\ Deref(heap, qsets[3]).filters =
          <<ColumnOp("ne", "a", 1), ColumnOp("ne", "b", 2)>>
    /\ \E t \in Tables :
          /\ all(heap, qsets[3], t) # all(heap, qsets[1], t)
          /\ all(heap, qsets[3], t) # <<>>

(* C5: one exclude(kwargs) call with several keyword lookups returns
   exactly the rows that do not satisfy the conjunction of its lookups,
   for every table. *)
C5_ExcludeNegatesConjunction ==
    (last.op = "exclude" /\ last.err = "none" /\ last.ret \in DOMAIN qsets) =>
        \A t \in Tables :
            all(heap, qsets[last.ret], t) =
                RowsOfWhere(heap, qsets[last.recv], t,
                    LAMBDA r : Not3(AllHold3(last.args, r)) = "T")

(* C6: a filter or exclude keyword whose suffix after "__" is no supported
   lookup raises when the predicate is compiled: no QuerySet is returned
   and no query is executed against the session. *)
C6_UnknownLookupRaises ==
    [][ ( /\ last' # last
          /\ last'.op \in {"filter", "exclude"}
          /\ HasUnknownLookup(last'.args) )
        => /\ last'.err = "ValueError"
           /\ last'.ret = 0
           /\ last'.execs = 0
           /\ qsets' = qsets
           /\ \A i \in DOMAIN qsets :
                 Deref(heap', qsets'[i]) = Deref(heap, qsets[i]) ]_vars

\* filter(b=2, a__nosuch=1) raised after its first keyword was compiled
C6_Witness ==
    /\ last.op = "filter" /\ last.err = "ValueError"
    /\ Len(last.args) = 2 /\ HasUnknownLookup(last.args)
    /\ Len(qsets) = 2

----------------------------------------------------------------------------
(* The migration claims are stated over the log of the running call *)

Count(S) == Cardinality(S)

\* how often the oi-th forward operation of the migration with this key ran
ForwardRuns(log, key, oi) ==
    Count({j \in DOMAIN log :
              log[j].e = "forward" /\ log[j].key = key /\ log[j].oi = oi})

LedgerRecords(led, key) == Count({j \in DOMAIN led : led[j] = key})

\* the keys of the events e of the log, in order
KeysOf(log, e) ==
    LET sel == SelectSeq(log, LAMBDA x : x.e = e)
    IN  [j \in 1..Len(sel) |-> sel[j].key]

\* the schema after the forward runs of the log that returned, from sch
RECURSIVE Replay(_, _)
Replay(log, sch) ==
    IF log = <<>> THEN sch
    ELSE Replay(Tail(log),
                IF Head(log).e = "forward" /\ Head(log).ok
                THEN forward(Head(log).op, sch).schema ELSE sch)

\* a raise is the last thing a call does
RaiseEndsCall ==
    /\ \A j \in DOMAIN call.log :
          ~call.log[j].ok =>
              j = Len(call.log) /\ call.outcome = "raised" /\ call.pc = "idle"
    /\ call.outcome = "raised" =>
          call.log # <<>> /\ ~call.log[Len(call.log)].ok

\* apply_migrations was called twice in sequence with the same list, and
\* the second call has ended
AppliedTwice ==
    /\ call.kind = "apply" /\ call.pc = "idle"
    /\ prev.kind = "apply" /\ prev.migrations = call.migrations

(* C7 as claimed: after two apply_migrations calls in sequence with the same
   list, every forward operation of every migration of the list ran at most
   once in the two calls together, and the ledger holds exactly one record
   per (app_label, name) of the list. *)
C7_AppliedAtMostOnce ==
    AppliedTwice =>
        \A m \in Range(call.migrations) :
            /\ \A oi \in DOMAIN m.operations :
                  ForwardRuns(prev.log \o call.log, Key(m), oi) <= 1
            /\ LedgerRecords(ledger, Key(m)) = 1

(* C7 amended: when the first of the two calls returned without raising,
   the second call runs no forward operation and returns, so every forward
   operation ran at most once in the two calls together, and the ledger
   holds exactly one record per (app_label, name) of the list. *)
C7_AppliedAtMostOnceIfReturned ==
    (AppliedTwice /\ prev.outcome = "returned") =>
        /\ call.outcome = "returned"
        /\ call.log = <<>>
        /\ \A m \in Range(call.migrations) :
              /\ \A oi \in DOMAIN m.operations :
                    ForwardRuns(prev.log \o call.log, Key(m), oi) <= 1
              /\ LedgerRecords(ledger, Key(m)) = 1

\* the first call applied two migrations, the second call has ended
C7_Witness ==
    /\ AppliedTwice /\ prev.outcome = "returned"
    /\ Len(KeysOf(prev.log, "record_applied")) >= 2
    /\ Len(ledger) >= 2

(* C8: in apply_migrations the ledger record of a migration is written only
   after every forward of that migration returned; when a forward raises,
   the call ends raised at once, the failed migration is not recorded, no
   later migration is applied or recorded, and the records written earlier
   in the call remain. *)
C8_RecordOnlyAfterApply ==
    call.kind = "apply" =>
        /\ \A j \in DOMAIN call.log :
              call.log[j].e = "record_applied" =>
                  LET ops == call.migrations[call.log[j].k].operations
                      n   == Len(ops)
                  IN  /\ j > n
                      /\ \A o \in 1..n :
                            call.log[j - n - 1 + o] =
                               [e |-> "forward", key |-> call.log[j].key,
                                k |-> call.log[j].k, oi |-> o, op |-> ops[o],
                                ok |-> TRUE]
        /\ RaiseEndsCall
        /\ ledger = call.ledger0 \o KeysOf(call.log, "record_applied")
        /\ call.outcome = "raised" =>
              ~is_applied(ledger, call.migrations[call.log[Len(call.log)].k])

\* a forward of the second migration raised after the first was recorded
C8_Witness ==
    /\ call.kind = "apply" /\ call.outcome = "raised"
    /\ Len(KeysOf(call.log, "record_applied")) = 1
    /\ call.log[Len(call.log)].k = 2
    /\ Len(call.migrations) = 3
    /\ Len(ledger) = Len(call.ledger0) + 1

(* C9: Migration.apply runs the forward of its operations in list order;
   when one raises, no later operation of the migration is run, the call
   ends raised, and the schema keeps the effects of the operations that
   ran before it. *)
C9_ApplyStopsAtFirstRaise ==
    call.kind = "apply" =>
        /\ \A j \in DOMAIN call.log :
              call.log[j].e = "forward" =>
                  /\ call.log[j].op =
                        call.migrations[call.log[j].k].operations[call.log[j].oi]
                  /\ \/ call.log[j].oi = 1
                     \/ /\ j > 1
                        /\ call.log[j - 1].e = "forward"
                        /\ call.log[j - 1].k = call.log[j].k
                        /\ call.log[j - 1].oi = call.log[j].oi - 1
                        /\ call.log[j - 1].ok
        /\ \A j \in DOMAIN call.log :
              ~call.log[j].ok => j = Len(call.log) /\ call.outcome = "raised"
        /\ schema = Replay(call.log, call.schema0)

\* the second of three operations raised: the table the first created stays
C9_Witness ==
    /\ call.kind = "apply" /\ call.outcome = "raised"
    /\ call.log[Len(call.log)].oi = 2
    /\ Len(call.migrations[call.log[Len(call.log)].k].operations) = 3
    /\ schema # call.schema0
    /\ "item" \in schema.tables

(* C10: unapply_migrations walks its list in reverse order, skips the
   migrations without a ledger record, reverses the operations of a
   migration in reverse operation order, and removes the ledger record only
   after every reverse returned; when a reverse raises, the call ends
   raised at once, the record stays and no further migration is unapplied. *)
C10_UnapplyInReverse ==
    call.kind = "unapply" =>
        LET log == call.log
            len == Len(call.migrations)
        IN
        /\ \A j \in DOMAIN log :
              LET m == call.migrations[len + 1 - log[j].k]
                  n == Len(m.operations)
              IN  /\ log[j].key = Key(m)
                  /\ is_applied(call.ledger0, m)
                  /\ j > 1 => log[j - 1].k <= log[j].k
                  /\ log[j].e = "reverse" =>
                        /\ log[j].op = m.operations[n + 1 - log[j].oi]
                        /\ \/ log[j].oi = 1
                           \/ /\ j > 1
                              /\ log[j - 1].e = "reverse"
                              /\ log[j - 1].k = log[j].k
                              /\ log[j - 1].oi = log[j].oi - 1
                  /\ log[j].e = "record_unapplied" =>
                        /\ j > n
                        /\ \A o \in 1..n :
                              /\ log[j - n - 1 + o].e = "reverse"
                              /\ log[j - n - 1 + o].k = log[j].k
                              /\ log[j - n - 1 + o].oi = o
                              /\ log[j - n - 1 + o].ok
        /\ RaiseEndsCall
        /\ ledger = SelectSeq(call.ledger0,
                        LAMBDA r : r \notin Range(KeysOf(log, "record_unapplied")))
        /\ call.outcome = "raised" =>
              is_applied(ledger, call.migrations[len + 1 - log[Len(log)].k])
        /\ call.outcome = "returned" =>
              \A m \in Range(call.migrations) : ~is_applied(ledger, m)

\* a list of three of which the last had no record: the other two were
\* unapplied, the second before the first
C10_Witness ==
    /\ call.kind = "unapply" /\ call.outcome = "returned"
    /\ call.migrations = <<Initial, AddIndex, Retype>>
    /\ KeysOf(call.log, "record_unapplied") = <<Key(AddIndex), Key(Initial)>>
    /\ ledger = <<>>

\* the operations whose reverse undoes their forward
CreatingOperations == {"CreateTable", "AddColumn", "CreateIndex"}

\* a returned unapply_migrations call follows at once a returned
\* apply_migrations call with the same list, which applied every migration
\* of the list, all of them built from creating operations only
AppliedThenUnapplied ==
    /\ call.kind = "unapply" /\ call.outcome = "returned"
    /\ prev.kind = "apply" /\ prev.outcome = "returned"
    /\ prev.migrations = call.migrations
    /\ \A m \in Range(call.migrations) :
          /\ \A o \in Range(m.operations) : o.type \in CreatingOperations
          /\ Key(m) \in Range(KeysOf(prev.log, "record_applied"))

(* C11: for migrations built only from CreateTable, AddColumn and
   CreateIndex whose forward operations succeeded, applying them and then
   unapplying them leaves the schema (tables, columns, indexes) equal to the
   schema before the apply. *)
C11_ApplyThenUnapplyRestores ==
    AppliedThenUnapplied =>
        /\ schema = prev.schema0
        /\ \A m \in Range(call.migrations) :
              Key(m) \in Range(KeysOf(call.log, "record_unapplied"))

\* a table with two added columns and an index on it were created by the
\* apply and are absent again after the unapply
C11_Witness ==
    /\ AppliedThenUnapplied
    /\ call.migrations = <<Initial, AddIndex>>
    /\ Replay(prev.log, prev.schema0) # prev.schema0
    /\ HasIndex(Replay(prev.log, prev.schema0), "item_sku")
    /\ HasColumn(Replay(prev.log, prev.schema0), "item", "price")
    /\ "item" \notin schema.tables

----------------------------------------------------------------------------
(* The instance claims are stated with what a field accepts *)

\* the inputs a field accepts: None only when nullable, a value of the
\* field's type or a string that spells one, within the length ceiling and
\* the numeric bounds
Accepts(field, value) ==
    IF value = PyNone THEN field.null
    ELSE CASE field.type = "Field" -> TRUE
           [] field.type = "CharField" ->
                 IsStr(value) /\ PyLen(value) <= field.max_length
           [] field.type = "IntegerField" ->
                 /\ value.t \in {"int", "numeral", "Decimal"}
                 /\ field.bounded =>
                       value.n >= field.min_value /\ value.n <= field.max_value
           [] field.type = "SmallIntegerField" ->
                 /\ value.t \in {"int", "numeral", "Decimal"}
                 /\ value.n >= SmallIntegerMin /\ value.n <= SmallIntegerMax
           [] field.type = "DecimalField" ->
                 /\ value.t \in {"int", "numeral", "Decimal"}
                 /\ Digits(value.n) <= field.max_digits
           [] field.type = "DateTimeField" -> value.t = "datetime"

\* the fields of an instance full_clean(excluded) has to reject
Rejected(obj, excluded) ==
    {f \in FieldNames \ excluded : ~Accepts(_fields[f], obj.attrs[f])}

\* the key a clean() failure is reported under
Sentinel == "__all__"
HookKeys(hook) ==
    CASE hook = "pass" -> {}
      [] hook = "dict" -> {"name"}
      [] OTHER -> {Sentinel}

(* C12: save() validates before it writes: when full_clean() fails, save()
   raises ValidationError to its caller and the table is unchanged; a row is
   written only after full_clean() succeeded. *)
C12_SaveValidatesFirst ==
    [][ done'.op = "save" =>
          LET v == full_clean(SetAutoNow(instance, done'.now), {}, done'.hook,
                              stored)
          IN  /\ v.exc # "none" =>
                    done'.exc = "ValidationError" /\ stored' = stored
              /\ stored' # stored => v.exc = "none" ]_vars

(* C13: Manager.create(kwargs) has the outcome of Model(kwargs) followed by
   save(), whatever the clean() hook of the class does: the same exception
   or none, and the same table afterwards, so a create whose instance would
   fail full_clean() raises ValidationError and stores nothing. *)
C13_CreateIsConstructThenSave ==
    [][ done'.op = "create" =>
          \A hook \in Hooks :
              LET c == __init__(done'.kwargs, done'.now, stored)
                  s == IF c.exc # "none" THEN c
                       ELSE save(c.inst, done'.now, hook, stored, TRUE)
              IN  /\ done'.exc = s.exc
                  /\ stored' = s.table
                  /\ (c.exc = "none" /\
                      full_clean(SetAutoNow(c.inst, done'.now), {}, hook,
                                 stored).exc # "none")
                        => done'.exc = "ValidationError" /\ stored' = stored
      ]_vars

(* C14: Model.delete() on an instance without a primary key raises and
   leaves the table unchanged; on a persisted instance it returns, removes
   exactly the row of that primary key, and leaves the attribute values of
   the instance as they were. *)
C14_DeleteByPrimaryKey ==
    [][ done'.op = "delete" =>
          IF instance.pk = 0
          THEN done'.exc # "none" /\ stored' = stored
          ELSE /\ done'.exc = "none"
               /\ stored' = SelectSeq(stored, LAMBDA r : r.id # instance.pk)
               /\ Len(stored') = Len(stored) - 1
               /\ instance'.attrs = instance.attrs ]_vars

(* C15: full_clean(exclude) validates every non-excluded field and then
   calls clean(); it raises nothing when all succeed, and otherwise raises
   one ValidationError whose mapping has a key for each failing field, the
   keys of a clean() failure that names fields, and the whole-object
   sentinel key for a clean() failure that names none. *)
C15_FullCleanAggregates ==
    [][ done'.op = "full_clean" =>
          LET keys == Rejected(instance, done'.exclude)
                         \cup HookKeys(done'.hook)
          IN  IF keys = {} THEN done'.exc = "none"
              ELSE /\ done'.exc = "ValidationError"
                   /\ done'.dict
                   /\ done'.keys = keys ]_vars

\* the value Model(kwargs) was given for field f, None when it was given none
Given(kwargs, f) ==
    IF \E i \in DOMAIN kwargs : kwargs[i].name = f
    THEN kwargs[CHOOSE i \in DOMAIN kwargs : kwargs[i].name = f].value
    ELSE PyNone

(* C16: after Model(kwargs) returns, every auto_now_add field that was
   given no value holds the instant of the construction, and one that was
   given a value keeps it. *)
C16_AutoNowAddOnInit ==
    [][ (done'.op = "init" /\ done'.exc = "none") =>
          \A f \in FieldNames :
              _fields[f].auto_now_add =>
                  instance'.attrs[f] =
                      IF Given(done'.kwargs, f) = PyNone
                      THEN Datetime(done'.now)
                      ELSE Given(done'.kwargs, f) ]_vars

(* C17: field.validate(value) returns a value or raises ValidationError,
   for every field type and every input; an input the field does not accept
   (None on a non-nullable field, a wrong type, an unparsable string, a
   number out of range) raises ValidationError and no other exception. *)
C17_ValidateRaisesValidationError ==
    done.op = "validate" =>
        /\ done.exc \in {"none", "ValidationError"}
        /\ ~Accepts(done.field, done.value) => done.exc = "ValidationError"

(* C18: a numeric field declared with min_value and max_value rejects a
   value outside these bounds: full_clean() on an instance holding such a
   value raises ValidationError; a value inside the bounds passes. *)
C18_NumericBoundsEnforced ==
    [][ (/\ done'.op = "full_clean"
         /\ \A f \in FieldNames \ done'.exclude :
               f # "age" => Accepts(_fields[f], instance.attrs[f])
         /\ done'.hook = "pass"
         /\ "age" \notin done'.exclude
         /\ instance.attrs["age"].t = "int") =>
          IF /\ instance.attrs["age"].n >= _fields["age"].min_value
             /\ instance.attrs["age"].n <= _fields["age"].max_value
          THEN done'.exc = "none"
          ELSE done'.exc = "ValidationError" ]_vars

\* rows at positions o .. o+n-1 (counted from 0) of the sequence s; an offset
\* or a limit that was never set (Null) skips nothing and cuts nothing
Slice(s, o, n) ==
    LET skipped == IF o = Null THEN s ELSE Skip(s, o)
    IN  IF n = Null THEN skipped ELSE Take(skipped, n)

\* the filtered, ordered, de-duplicated sequence of a QuerySet over a table
Sequence(h, self, table) ==
    LET matched == SelectSeq(table, LAMBDA r : AndAll(h[self.filters], r) = "T")
        ordered == SortBy(matched, h[self.order_by])
    IN  IF self.distinct THEN Dedup(ordered) ELSE ordered

(* C19: for every QuerySet with filters, ordering, distinct, offset o >= 0
   and limit n >= 0, zero included, all(), values() and values_list()
   return exactly the rows at positions o .. o+n-1 of the filtered, ordered,
   de-duplicated sequence (as instances, dictionaries and tuples). *)
C19_SliceIsExact ==
    \A i \in DOMAIN qsets : \A table \in Tables :
        LET self == qsets[i]
            want == Slice(Sequence(heap, self, table), self.offset, self.limit)
        IN  /\ all(heap, self, table) = want
            /\ values(heap, self, <<>>, table)
                  = [k \in DOMAIN want |-> Dict(Columns, want[k])]
            /\ values_list(heap, self, <<>>, table)
                  = [k \in DOMAIN want |-> Tuple(Columns, want[k])]

\* the row after the keywords of an update were written into it
Changed(r, changes) ==
    [c \in DOMAIN r |->
        IF \E k \in DOMAIN changes : changes[k].key.name = c
        THEN changes[CHOOSE k \in DOMAIN changes : changes[k].key.name = c].value
        ELSE r[c]]

(* C20: update(kwargs) and delete() on a QuerySet change exactly the rows
   that match its filters (update writes the keywords into each of them and
   leaves every other row as it was, delete removes them and keeps the
   others in place), return the number of rows affected, and never call a
   field's validate, full_clean or clean. *)
C20_BulkChangesMatchingRows ==
    [][ (last'.op \in {"update", "delete"} /\ last'.err = "none") =>
          LET hit(r) == AllHold3(last'.args, r) = "T"
              n == Cardinality({k \in DOMAIN rows : hit(rows[k])})
          IN  /\ last'.rowcount = n
              /\ last'.validates = 0
              /\ IF last'.op = "update"
                 THEN /\ Len(rows') = Len(rows)
                      /\ \A k \in DOMAIN rows :
                            rows'[k] = IF hit(rows[k])
                                       THEN Changed(rows[k], last'.changes)
                                       ELSE rows[k]
                 ELSE rows' = SelectSeq(rows, LAMBDA r : ~hit(r)) ]_vars

\* an update that changed one row of two and left the other one alone
C20_Witness ==
    /\ last.op = "update" /\ last.err = "none"
    /\ Len(rows) = 2 /\ last.rowcount = 1
    /\ \E k \in DOMAIN rows : rows[k] # Changed(rows[k], last.changes)

\* the methods that build a QuerySet, and the ones that evaluate it
ChainMethods == {"filter", "exclude", "order_by", "limit", "offset", "distinct"}
TerminalMethods == {"all", "first", "last", "count", "len"}

(* C24: QuerySets are lazy: filter, exclude, order_by, limit, offset and
   distinct execute no statement against the session, whether they return
   or raise; a statement is executed only by a terminal operation. *)
C24_ChainingIsLazy ==
    /\ last.op \in ChainMethods => last.execs = 0
    /\ last.execs > 0 => last.op \in TerminalMethods

\* a QuerySet was limited without a statement, on a table that holds rows
C24_Witness ==
    /\ last.op = "limit" /\ last.err = "none" /\ last.execs = 0
    /\ Len(rows) > 0 /\ Len(qsets) > 2

(* C27: for every QuerySet, count() and len() give the number of rows
   all() returns for that same QuerySet, limit and offset included. *)
C27_CountIsLenOfAll ==
    last.op \in {"count", "len"} =>
        last.rowcount = Len(all(heap, qsets[last.recv], rows))

(* C28: last() returns the final element of the sequence all() returns for
   the same QuerySet, and None exactly when that sequence is empty, also
   when the QuerySet is ordered by a field that is not the primary key. *)
C28_LastIsFinalOfAll ==
    last.op = "last" =>
        LET s == all(heap, qsets[last.recv], rows)
        IN  last.out = IF s = <<>> THEN <<>> ELSE <<s[Len(s)]>>

(* C23: when full_clean() or save() raises ValidationError, the field
   values of the instance are what they were before the call: no field is
   left replaced by a coerced or an auto-populated value. *)
C23_FailedValidationKeepsFields ==
    [][ (done'.op \in {"full_clean", "save"} /\ done'.exc = "ValidationError")
          => instance'.attrs = instance.attrs ]_vars

(* C21: session_scope commits exactly when its body exits normally;
   when the body raises, the session is ended without a commit (by an
   explicit rollback for an Exception) and the exception reaches the
   caller; the session is closed last on both paths.  The rows added in a
   body that raised are not in the table afterwards, the rows added in a
   body that exited normally are. *)
C21_SessionScope ==
    [][ (scope.pc = "body" /\ scope'.pc = "out") =>
          /\ (\E k \in DOMAIN scope'.calls : scope'.calls[k] = "commit")
                <=> scope'.exit = "none"
          /\ scope'.calls[Len(scope'.calls)] = "close"
          /\ scope'.raised = scope'.exit
          /\ scope'.exit = "Exception" => scope'.calls[1] = "rollback"
          /\ rows' = IF scope'.exit = "none"
                     THEN Commit(rows, scope.pending)
                     ELSE rows ]_vars

\* a body that added a row to a table holding one and then raised
C21_Witness ==
    /\ scope.pc = "out" /\ scope.exit = "Exception"
    /\ Len(scope.pending) = 1 /\ Len(rows) = 1

(* C22: get_or_create is not atomic: when two callers race on the same
   lookup key and both miss the get, both go on to the create, and with no
   uniqueness constraint on the key the table ends with a row from each of
   them, a duplicate. *)
C22_RacingCallersBothCreate ==
    (/\ \A p \in Callers : racers[p].pc = "done" /\ racers[p].miss
     /\ racers[1].kwargs = racers[2].kwargs) =>
        /\ \A p \in Callers : racers[p].created
        /\ Len(Matching(racers[1].kwargs, rows)) >= 2

\* a returned unapply_migrations call follows at once a returned
\* apply_migrations call with the same list; the apply recorded every
\* migration of the list and the unapply removed every record again
AppliedThenUnrecorded ==
    /\ call.kind = "unapply" /\ call.outcome = "returned"
    /\ prev.kind = "apply" /\ prev.outcome = "returned"
    /\ prev.migrations = call.migrations
    /\ \A m \in Range(call.migrations) :
          /\ Key(m) \in Range(KeysOf(prev.log, "record_applied"))
          /\ Key(m) \in Range(KeysOf(call.log, "record_unapplied"))

(* C29: with a single writer and no operation raising, the ledger and the
   schema stay consistent for every operation type: when unapply_migrations
   has removed the ledger records of the migrations an apply had recorded,
   the schema is the schema that existed before they were applied. *)
C29_UnrecordedMeansReverted ==
    AppliedThenUnrecorded => schema = prev.schema0

(* C26: a migration recorded in the ledger whose file was produced by
   makemigrations can be rolled back with rollback_migration(app_label,
   name) under its recorded name: the loader finds and loads it, its
   unapply runs, the ledger record is removed and True is returned. *)
C26_RecordedCanBeRolledBack ==
    [][ (/\ cli'.op = "rollback"
         /\ is_applied(ledger, Migration(cli'.name, "shop", <<>>))
         /\ \E f \in files : f.stamp # 0 /\ f.migration.name = cli'.name) =>
          /\ cli'.result = [t |-> "bool", n |-> 1]
          /\ ~is_applied(ledger', Migration(cli'.name, "shop", <<>>)) ]_vars

\* the recorded names of the app are those of the first k migrations of
\* the loader, for some k
RecordedIsPrefix(led, fs) ==
    LET loaded == get_migration_files(fs)
        recorded == {led[i].name : i \in DOMAIN led}
    IN  \E k \in 0..Len(loaded) :
            recorded = {loaded[i].migration.name : i \in 1..k}

(* C30: for each app, after any sequence of migrate, fake migrate and
   rollback_migration commands, the set of recorded migrations is a prefix
   of the app's migrations in loader order: no command takes a ledger that
   is such a prefix to one that is not. *)
C30_RecordedIsPrefixOfLoaderOrder ==
    [][ (/\ cli'.op \in {"migrate", "rollback"}
         /\ RecordedIsPrefix(ledger, files)) =>
          RecordedIsPrefix(ledger', files') ]_vars

\* how many ledger records of the key a process wrote, by its log
RecordsWritten(log, key) ==
    Count({j \in DOMAIN log :
              log[j].e = "record_applied" /\ log[j].key = key})

\* the process ran every forward operation of the migration, each with
\* success, by its log
RanForward(log, migration) ==
    \A oi \in DOMAIN migration.operations :
        \E j \in DOMAIN log :
            /\ log[j].e = "forward" /\ log[j].key = Key(migration)
            /\ log[j].oi = oi /\ log[j].ok

(* C25: apply_migrations has no mutual exclusion.  Of two processes that
   call it on one database, each that found a migration unrecorded and ran
   its forward operations records it, whatever the other one did in
   between: the ledger holds, for every (app_label, name), exactly one
   record per process that recorded it, so two when both did. *)
C25_EachProcessRecords ==
    \A m \in {Initial, Widen} :
        /\ LedgerRecords(ledger, Key(m)) =
              RecordsWritten(call.log, Key(m)) + RecordsWritten(other.log, Key(m))
        /\ \A c \in {call, other} :
              RecordsWritten(c.log, Key(m)) > 0 => RanForward(c.log, m)

\* both processes found 0004_widen unrecorded, both ran its forward
\* operation, and the ledger ended with two records of it
C25_Witness ==
    /\ LedgerRecords(ledger, Key(Widen)) = 2
    /\ RanForward(call.log, Widen) /\ RanForward(other.log, Widen)
    /\ call.outcome = "returned" /\ other.outcome = "returned"

====
